---- MODULE Spec2Model ----
(***************************************************************************)
(* A model of mpi4pyd: the HybridComm facade (mpi4pyd/MPI/_hybrid_comm.py),*)
(* the BufferComm facade (mpi4pyd/MPI/_buffer_comm.py) and their registry. *)
(*                                                                         *)
(* One behaviour is one call of one facade operation by every rank of one  *)
(* communicator (SpecBcast, SpecGather, SpecScatter), one send/recv        *)
(* exchange (SpecP2P), or a sequence of wrap requests (SpecReg).  A rank   *)
(* advances by one blocking call of the wrapped communicator per step.     *)
(*                                                                         *)
(* The wrapped communicator (mpi4py) is not part of the repository.  It is *)
(* modelled by what its primitives do at the call sites of the source:     *)
(*  - collectives match by their order on the communicator: posts[r] is    *)
(*    the sequence of collective calls rank r has made so far;             *)
(*  - a lowercase (pickle) primitive carries any object unchanged;         *)
(*  - an uppercase (buffer) primitive takes a contiguous array only: for   *)
(*    any other array it raises on the calling rank before communicating;  *)
(*    it copies raw elements into the receive array, which keeps its own   *)
(*    shape and element type.                                              *)
(***************************************************************************)
EXTENDS Integers, Sequences, FiniteSets, TLC

\* ------------------------------------------------------------- bounds
\* Group sizes 2..MaxSize.
MaxSize == 3
\* The larger extent of a dimension of the arrays passed in.
MaxExtent == 2

VARIABLES
    oper,        \* the facade operation every rank calls in this behaviour
    impl,        \* "hybrid": HybridComm, "buffer": BufferComm
    size,        \* comm.Get_size()
    root,        \* the root argument, the same on every rank
    obj,         \* obj[r]: the payload argument rank r passed
    pc,          \* pc[r]: where rank r is in its call
    use_buffer,  \* use_buffer[r]: the local variable use_buffer of rank r
    recvobj,     \* recvobj[r]: the receive array / result under construction
    ret,         \* ret[r]: the value the call returned on rank r
    err,         \* err[r]: the exception the call raised on rank r ("" if none)
    shapes,      \* shapes[r]: the local variable shapes of gather (root only)
    loop,        \* loop[r]: the rank the receive loop of gather has come to
    posts,       \* posts[r]: the collective calls rank r made on comm, in order
    chan,        \* chan[<<s, d>>]: the point-to-point messages sent by s to d
                 \* and not received yet, in the order they were sent
    call,        \* call[r]: the send or recv call of rank r: its method and
                 \* its arguments dest/source (peer) and tag
    objs,        \* objs[o]: the Python object o of this process: its class,
                 \* its address id(o), whether it is still allocated
    hybrid_comm_registry,  \* the dict hybrid_comm_registry of this process
    log,         \* the calls of get_HybridComm_obj so far, each with its
                 \* argument and what it returned or raised
    thread,      \* thread[t]: the call of get_HybridComm_obj that thread t of
                 \* the process is making: its argument, where it is, its
                 \* local hybrid_comm, and what it returned or raised
    attrs,       \* the attributes of one HybridComm and of the communicator
                 \* it wraps, and the outcome of the last access to them
    buffer_comm_registry,  \* the dict buffer_comm_registry of the top-level
                 \* get_BufferComm_obj
    comm_name,   \* comm_name[o]: comm.name of the communicator o, from the
                 \* time it exists
    todo,        \* todo[r]: the payloads of the send or recv calls that rank
                 \* r makes one after the other (None for a recv)
    returned     \* returned[r]: what the calls rank r has finished returned

vars == <<oper, impl, size, root, obj, pc, use_buffer, recvobj, ret, err,
          shapes, loop, posts, chan, call, objs, hybrid_comm_registry, log,
          thread, attrs, buffer_comm_registry, comm_name, todo, returned>>

\* What an operation of a facade leaves alone, and what a wrap request does.
regvars == <<objs, hybrid_comm_registry, log, thread, attrs,
             buffer_comm_registry, comm_name, todo, returned>>

bufvars == <<buffer_comm_registry, comm_name, todo, returned>>

commvars == <<oper, impl, size, root, obj, pc, use_buffer, recvobj, ret, err,
              shapes, loop, posts, chan, call>>

Ranks == 0 .. (size - 1)

\* A rank that makes no send or recv call.
NoCall == [meth |-> "none", peer |-> 0, tag |-> 0]

\* ------------------------------------------------------------ payloads
\* Every Python value that travels is a record of the same five fields.
\*   kind "ndarray": shape, dtype, contig (C-contiguous), data (row-major)
\*   kind "list":    data holds the items
\*   kind "none":    None
\*   kind "bool":    data = <<0>> or <<1>>
\*   kind "meta":    the list [shape, dtype] sent ahead of an array
Obj(kind, shape, dtype, contig, data) ==
    [kind |-> kind, shape |-> shape, dtype |-> dtype, contig |-> contig,
     data |-> data]

None == Obj("none", <<>>, "", TRUE, <<>>)

Flag(b) == Obj("bool", <<>>, "", TRUE, <<IF b THEN 1 ELSE 0>>)

Meta(shape, dtype) == Obj("meta", shape, dtype, TRUE, <<>>)

List(items) == Obj("list", <<>>, "", TRUE, items)

\* bytes(1024 * n): a bytes object of n KiB.
Bytes(n) == Obj("bytes", <<n>>, "", TRUE, <<>>)

\* The largest byte count the generic path can carry: 2**31-1.
INT_MAX == 2147483647

\* The pickle of the object has more bytes than the generic primitives of
\* the communicator can carry.
too_large(o) == o.kind = "bytes" /\ o.shape[1] > INT_MAX \div 1024

\* The bytes object of 2**31 bytes.
TooManyBytes == Bytes(INT_MAX \div 1024 + 1)

\* What the generic primitive raises on such an object: the exceptions the
\* handlers of BufferComm name.
TransportErrors == {"OverflowError", "SystemError"}

\* The handler around the generic primitive: BufferComm turns OverflowError
\* (bcast) or SystemError (gather, scatter) into InputError; HybridComm has
\* no handler.
reraised(e) ==
    IF impl \in {"buffer", "toplevel"} /\ e = (IF oper = "bcast" THEN "OverflowError" ELSE "SystemError")
    THEN "InputError"
    ELSE e

\* The value of memory that np.empty allocated and nothing wrote yet.
Uninit == 0 - 1

RECURSIVE Prod(_)
Prod(shape) == IF shape = <<>> THEN 1 ELSE Head(shape) * Prod(Tail(shape))

\* The array of a rank: its contents identify the rank (seed) and the position.
Arr(shape, dtype, contig, seed) ==
    Obj("ndarray", shape, dtype, contig,
        [i \in 1 .. Prod(shape) |-> seed * 100 + i])

\* np.empty(shape, dtype): a fresh C-contiguous array of unwritten memory.
\* A variant of np.empty that allocates the elements as one flat axis.
np_empty_flat(shape, dtype) ==
    Obj("ndarray", <<Prod(shape)>>, dtype, TRUE, [i \in 1 .. Prod(shape) |-> Uninit])

np_empty(shape, dtype) ==
    Obj("ndarray", shape, dtype, TRUE, [i \in 1 .. Prod(shape) |-> Uninit])

\* NumPy element types of the arrays passed in; dtype_dict has no complex128.
DTypes == {"int32", "float64", "complex128"}

dtype_dict ==
    [n \in {"int", "int32", "int64", "float", "float32", "float64"} |->
        CASE n = "int" -> "LONG"
          [] n = "int32" -> "INT"
          [] n = "int64" -> "LONG"
          [] n = "float" -> "DOUBLE"
          [] n = "float32" -> "FLOAT"
          [] n = "float64" -> "DOUBLE"]

SupportedDTypes == DOMAIN dtype_dict

\* An array of fewer than two elements is always contiguous.
Contigs(shape) == IF Prod(shape) >= 2 THEN {TRUE, FALSE} ELSE {TRUE}

\* ---------------------------------------------------------- classifier
\* isinstance(obj, np.ndarray)
is_buffer_obj(o) == o.kind = "ndarray"

\* ----------------------------------------------------------- transport
\* The index of the collective call rank r makes next.
CollIndex(r) == Len(posts[r]) + 1

\* Rank q has made its k-th collective call, and it is the primitive op.
Posted(q, k, op) == Len(posts[q]) >= k /\ posts[q][k].op = op

\* Rank r records its own call of the collective op with argument v.
Post(r, op, v) == [posts EXCEPT ![r] = Append(@, [op |-> op, val |-> v])]

\* comm.bcast / comm.Bcast / comm.Scatter return on a non-root rank once root
\* has made the matching call; on root they return at once.
FromRootReady(r, op) == r = root \/ Posted(root, CollIndex(r), op)

\* A variant of comm.bcast that hands every rank its own argument back.
bcast_own_argument(r, v) == v

\* What comm.bcast(v, root) returns on rank r.
comm_bcast(r, v) == IF r = root THEN v ELSE posts[root][CollIndex(r)].val

\* An uppercase primitive reads or writes the memory of its array argument
\* through the buffer interface, which takes contiguous memory only.
BufferOk(a) == a.kind = "ndarray" /\ a.contig

\* Raw elements src copied into the receive array buf: the array keeps its
\* shape and element type, and the elements the message does not reach keep
\* what they held.
CopyInto(buf, src) ==
    [buf EXCEPT !.data =
        [i \in 1 .. Len(buf.data) |->
            IF i <= Len(src) THEN src[i] ELSE buf.data[i]]]

\* The bytes of one element.
ItemSize(dtype) ==
    CASE dtype = "int32" -> 4
      [] dtype = "float64" -> 8
      [] dtype = "complex128" -> 16

\* What reading memory of another element type gives: not the values sent.
Junk == 0 - 2

\* The elements the array src, sent as raw memory, puts into memory read with
\* element type dtype.
RawElems(src, dtype) ==
    IF src.dtype = dtype THEN src.data
    ELSE [i \in 1 .. ((Len(src.data) * ItemSize(src.dtype)) \div ItemSize(dtype))
            |-> Junk]

\* The message is longer than count elements of type dtype: the receiving
\* primitive fails (MPI_ERR_TRUNCATE).
Truncates(src, dtype, count) ==
    Len(src.data) * ItemSize(src.dtype) > count * ItemSize(dtype)

\* A variant of the reduction that takes the maximum.
allreduce_MAX(flags) ==
    CHOOSE m \in {flags[r] : r \in DOMAIN flags} :
        \A r \in DOMAIN flags : m >= flags[r]

\* comm.allreduce(flag, op=MPI.MIN) over the 0/1 flags of all ranks.
allreduce_MIN(flags) ==
    CHOOSE m \in {flags[r] : r \in DOMAIN flags} :
        \A r \in DOMAIN flags : m <= flags[r]

\* MPI.ANY_SOURCE and MPI.ANY_TAG, the defaults of recv.
ANY_SOURCE == 0 - 1

ANY_TAG == 0 - 1

\* A message of s to d: its tag, what was sent, and whether an uppercase
\* primitive sent it (raw memory) or a lowercase one (a pickle).
Msg(tag, val, raw) == [tag |-> tag, val |-> val, raw |-> raw]

TagMatches(m, tag) == tag = ANY_TAG \/ m.tag = tag

\* A variant of the matching that takes the last message the tag matches.
LastMatch(s, d, tag) ==
    IF \E i \in 1 .. Len(chan[<<s, d>>]) : TagMatches(chan[<<s, d>>][i], tag)
    THEN CHOOSE i \in 1 .. Len(chan[<<s, d>>]) :
            /\ TagMatches(chan[<<s, d>>][i], tag)
            /\ \A j \in (i + 1) .. Len(chan[<<s, d>>]) : ~TagMatches(chan[<<s, d>>][j], tag)
    ELSE 0

\* The first message from s to d that the tag matches (0 if there is none):
\* messages of one sender are matched in the order they were sent.
FirstMatch(s, d, tag) ==
    IF \E i \in 1 .. Len(chan[<<s, d>>]) : TagMatches(chan[<<s, d>>][i], tag)
    THEN CHOOSE i \in 1 .. Len(chan[<<s, d>>]) :
            /\ TagMatches(chan[<<s, d>>][i], tag)
            /\ \A j \in 1 .. (i - 1) : ~TagMatches(chan[<<s, d>>][j], tag)
    ELSE 0

\* The senders a receive of rank d with the given source and tag can match.
Senders(d, source, tag) ==
    {s \in Ranks : (source = ANY_SOURCE \/ s = source) /\ FirstMatch(s, d, tag) # 0}

\* The sequence q without its i-th element.
Without(q, i) == SubSeq(q, 1, i - 1) \o SubSeq(q, i + 1, Len(q))

\* ----------------------------------------------- rank-local bookkeeping
Goto(r, label) == pc' = [pc EXCEPT ![r] = label]

Return(r, v) == /\ ret' = [ret EXCEPT ![r] = v]
                /\ pc' = [pc EXCEPT ![r] = "done"]
                /\ err' = err

Raise(r, e) == /\ err' = [err EXCEPT ![r] = e]
               /\ pc' = [pc EXCEPT ![r] = "raised"]
               /\ ret' = ret

\* ------------------------------------------------ use_buffer_meth: bcast
\* use_buffer_meth called from bcast or scatter:
\* comm.bcast(is_buffer_obj(obj), root=src_dest).
use_buffer_meth_bcast(r) ==
    /\ pc[r] = "handshake"
    /\ oper \in {"bcast", "scatter"}
    /\ FromRootReady(r, "bcast")
    /\ use_buffer' =
         [use_buffer EXCEPT ![r] = comm_bcast(r, Flag(is_buffer_obj(obj[r]))).data[1] = 1]
    /\ posts' = Post(r, "bcast", Flag(is_buffer_obj(obj[r])))
    /\ Goto(r, IF use_buffer'[r] THEN "meta" ELSE "generic")
    /\ UNCHANGED <<regvars, oper, impl, size, root, obj, recvobj, ret, err, shapes, loop, chan, call>>

\* ---------------------------------------------------------------- bcast
\* Buffer path, first half.  Root: comm.bcast([obj.shape, obj.dtype]).
\* Others: obj = np.empty(*comm.bcast(None, root)).
bcast_meta(r) ==
    /\ oper = "bcast"
    /\ pc[r] = "meta"
    /\ FromRootReady(r, "bcast")
    /\ LET m == comm_bcast(r, IF r = root THEN Meta(obj[r].shape, obj[r].dtype)
                                          ELSE None)
       IN  /\ recvobj' = [recvobj EXCEPT ![r] =
                            IF r = root THEN obj[r] ELSE np_empty(m.shape, m.dtype)]
           /\ posts' = Post(r, "bcast",
                            IF r = root THEN Meta(obj[r].shape, obj[r].dtype) ELSE None)
    /\ Goto(r, "data")
    /\ UNCHANGED <<regvars, oper, impl, size, root, obj, use_buffer, ret, err, shapes, loop, chan, call>>

\* Buffer path, second half: comm.Bcast(obj, root), then return obj.
bcast_Bcast(r) ==
    /\ oper = "bcast"
    /\ pc[r] = "data"
    /\ IF ~BufferOk(recvobj[r])
       THEN /\ Raise(r, "ValueError")
            /\ UNCHANGED <<posts, recvobj>>
       ELSE /\ FromRootReady(r, "Bcast")
            /\ LET a == IF r = root THEN recvobj[r]
                        ELSE CopyInto(recvobj[r],
                                      RawElems(posts[root][CollIndex(r)].val,
                                               recvobj[r].dtype))
               IN  /\ recvobj' = [recvobj EXCEPT ![r] = a]
                   /\ Return(r, a)
            /\ posts' = Post(r, "Bcast", recvobj[r])
    /\ UNCHANGED <<regvars, oper, impl, size, root, obj, use_buffer, shapes, loop, chan, call>>

\* Generic path: obj = comm.bcast(obj, root), then return obj.  Root cannot
\* send an object whose pickle is too large.
bcast_generic(r) ==
    /\ oper = "bcast"
    /\ pc[r] = "generic"
    /\ IF r = root /\ too_large(obj[r])
       THEN /\ \E e \in TransportErrors : Raise(r, reraised(e))
            /\ UNCHANGED posts
       ELSE /\ FromRootReady(r, "bcast")
            /\ Return(r, comm_bcast(r, obj[r]))
            /\ posts' = Post(r, "bcast", obj[r])
    /\ UNCHANGED <<regvars, oper, impl, size, root, obj, use_buffer, recvobj, shapes, loop, chan, call>>

\* ----------------------------------------------------- inputs of bcast
BcastShapes == {<<>>, <<0>>, <<MaxExtent>>, <<MaxExtent, 1>>}

\* The arrays of the given shapes, of every element type and layout.
Arrays(shapeset, seed) ==
    UNION {{Arr(s, d, c, seed) : d \in DTypes, c \in Contigs(s)} : s \in shapeset}

\* What root may pass: an array, a list, None, 2**31 bytes.
BcastRootPayloads ==
    Arrays(BcastShapes, 1) \cup {List(<<1, 2>>), None, TooManyBytes}

\* What the other ranks may pass (bcast ignores it).
BcastOtherPayloads == {None, List(<<7>>), Arr(<<MaxExtent>>, "float64", TRUE, 9)}

\* ------------------------------------------------- objects and registry
\* The Python objects of one behaviour, and the addresses they can have.
MaxObjs == 8
\* The calls of get_HybridComm_obj after the two the import makes.
MaxWraps == 3
\* The communicators the program makes.
MaxSplits == 2

Objs == 1 .. MaxObjs

\* The objects that exist once mpi4py and dummyMPI are imported, an object
\* that is no communicator, and the facade of MPI.COMM_WORLD that the
\* import of mpi4pyd.MPI makes in a world of two or more ranks.
COMM_WORLD == 1

COMM_SELF == 2

dummy_COMM_WORLD == 3

no_comm == 4

HYBRID_COMM_WORLD == 5

Unborn == [class |-> "", size |-> 0, comm |-> 0, addr |-> 0, live |-> FALSE]

Object(class, sz, comm, addr) ==
    [class |-> class, size |-> sz, comm |-> comm, addr |-> addr, live |-> TRUE]

\* The object the next allocation makes.
Fresh == CHOOSE o \in Objs : objs[o].class = "" /\ \A q \in 1 .. (o - 1) : objs[q].class # ""

\* The addresses the next allocation can get: the address of an object that
\* was deallocated, or one that no object had yet (which one makes no
\* difference, so it is the least).
Held == {objs[o].addr : o \in {q \in Objs : objs[q].live}}

Known == {objs[o].addr : o \in {q \in Objs : objs[q].class # ""}}

FreeAddrs ==
    (Known \ Held) \cup {a \in Objs \ Known : \A b \in Objs \ Known : a <= b}

\* Variants of the three tests of get_HybridComm_obj that always answer the
\* same, to show what each test is needed for.
isinstance_anything(o) == TRUE

in_no_keys(k) == FALSE

in_no_values(o) == FALSE

\* A variant of Get_size for which no communicator has a single rank.
never_one_rank(o) == 2

\* id(o), and hex(n) as the string "0x..." of the number.
id(o) == objs[o].addr

hex(n) == <<"0x", n>>

\* isinstance(comm, (MPI.Intracomm, dummyMPI.Intracomm)); HybridComm and
\* BufferComm are subclasses of the class of the communicator they wrap.
isinstance_Intracomm(o) ==
    objs[o].class \in {"MPI.Intracomm", "dummyMPI.Intracomm", "HybridComm", "BufferComm"}

\* comm.Get_size(); a HybridComm forwards it to the communicator it wraps.
Get_size(o) ==
    IF objs[o].class = "HybridComm" THEN objs[objs[o].comm].size ELSE objs[o].size

\* hex(id(comm)) in hybrid_comm_registry.keys()
in_keys(k) == k \in DOMAIN hybrid_comm_registry

\* comm in hybrid_comm_registry.values()
in_values(o) == \E k \in DOMAIN hybrid_comm_registry : hybrid_comm_registry[k] = o

\* A variant of the references in which nothing keeps a communicator alive
\* but the modules that own it.
Referenced_by_owner(o) == o \in {COMM_WORLD, COMM_SELF, dummy_COMM_WORLD, no_comm}

\* The closure of a HybridComm refers to the communicator it wraps, the
\* registry refers to every HybridComm in it, and the modules refer to
\* their own objects.
Referenced(o) ==
    \/ o \in {COMM_WORLD, COMM_SELF, dummy_COMM_WORLD, no_comm}
    \/ in_values(o)
    \/ \E f \in Objs : objs[f].live /\ objs[f].class = "HybridComm" /\ objs[f].comm = o

\* One call of get_HybridComm_obj as the log keeps it: the argument (0 for
\* None), the communicator it stands for, and the object returned (0 if the
\* call raised) or the exception raised.
Request(arg, comm, out, exc) == [arg |-> arg, comm |-> comm, out |-> out, exc |-> exc]

\* A variant of the registration that keeps no other entry.
Registered_alone(reg, k, f) == [j \in {k} |-> f]

\* The registry after hybrid_comm_registry[k] = f.
Registered(reg, k, f) == [j \in DOMAIN reg \cup {k} |-> IF j = k THEN f ELSE reg[j]]

\* The top-level get_BufferComm_obj plays no part.
NoBufferComm ==
    /\ buffer_comm_registry = <<>>
    /\ comm_name = <<>>

\* The behaviour has no rank that makes several calls in a row.
NoProgram ==
    /\ todo = <<>>
    /\ returned = <<>>

\* The state once mpi4pyd.MPI is imported in a process of a world of n
\* ranks: HYBRID_COMM_SELF = get_HybridComm_obj(MPI.COMM_SELF) and
\* HYBRID_COMM_WORLD = get_HybridComm_obj(MPI.COMM_WORLD) have run.
ImportedObjs(n) ==
    [o \in Objs |->
        IF o = COMM_WORLD THEN Object("MPI.Intracomm", n, 0, o)
        ELSE IF o = COMM_SELF THEN Object("MPI.Intracomm", 1, 0, o)
        ELSE IF o = dummy_COMM_WORLD THEN Object("dummyMPI.Intracomm", 1, 0, o)
        ELSE IF o = no_comm THEN Object("int", 0, 0, o)
        ELSE IF o = HYBRID_COMM_WORLD /\ n > 1 THEN Object("HybridComm", 0, COMM_WORLD, o)
        ELSE Unborn]

ImportedLog(n) ==
    <<Request(COMM_SELF, COMM_SELF, dummy_COMM_WORLD, ""),
      Request(COMM_WORLD, COMM_WORLD,
              IF n > 1 THEN HYBRID_COMM_WORLD ELSE dummy_COMM_WORLD, "")>>

Imported(n) ==
    /\ objs = ImportedObjs(n)
    /\ hybrid_comm_registry =
          IF n > 1 THEN Registered(<<>>, hex(COMM_WORLD), HYBRID_COMM_WORLD) ELSE <<>>
    /\ log = ImportedLog(n)

InitFresh ==
    /\ size \in 2 .. MaxSize
    /\ Imported(size)
    /\ NoBufferComm
    /\ thread = <<>>
    /\ attrs = <<>>
    /\ root \in 0 .. (size - 1)
    /\ use_buffer = [r \in 0 .. (size - 1) |-> FALSE]
    /\ recvobj = [r \in 0 .. (size - 1) |-> None]
    /\ ret = [r \in 0 .. (size - 1) |-> None]
    /\ err = [r \in 0 .. (size - 1) |-> ""]
    /\ shapes = [r \in 0 .. (size - 1) |-> <<>>]
    /\ loop = [r \in 0 .. (size - 1) |-> 0]
    /\ posts = [r \in 0 .. (size - 1) |-> <<>>]
    /\ chan = [p \in (0 .. (size - 1)) \X (0 .. (size - 1)) |-> <<>>]

\* Every rank is about to make the same collective call.
InitCommon ==
    /\ InitFresh
    /\ NoProgram
    /\ pc = [r \in 0 .. (size - 1) |-> "handshake"]
    /\ call = [r \in 0 .. (size - 1) |-> NoCall]

InitBcast ==
    /\ InitCommon
    /\ oper = "bcast"
    /\ impl \in {"hybrid", "buffer"}
    /\ \E p \in BcastRootPayloads :
         \E q \in [0 .. (size - 1) -> BcastOtherPayloads] :
            /\ q[root] = None
            /\ obj = [r \in 0 .. (size - 1) |-> IF r = root THEN p ELSE q[r]]

NextBcast ==
    \/ \E r \in Ranks : use_buffer_meth_bcast(r)
    \/ \E r \in Ranks : bcast_meta(r)
    \/ \E r \in Ranks : bcast_Bcast(r)
    \/ \E r \in Ranks : bcast_generic(r)

SpecBcast == InitBcast /\ [][NextBcast]_vars

\* Two arrays equal in shape, element type and contents.
SameArray(a, b) ==
    /\ a.kind = "ndarray" /\ b.kind = "ndarray"
    /\ a.shape = b.shape /\ a.dtype = b.dtype /\ a.data = b.data

\* C1: when root holds an array of a supported element type, the broadcast
\* fails on no rank and returns on every rank an array equal in shape,
\* element type and contents to root's array.
C1_BcastReturnsRootArray ==
    (oper = "bcast" /\ obj[root].kind = "ndarray"
        /\ obj[root].dtype \in SupportedDTypes)
    => \A r \in Ranks :
          /\ pc[r] # "raised"
          /\ pc[r] = "done" => SameArray(ret[r], obj[root])

\* C1, the failing case reached: root raised inside comm.Bcast after the
\* handshake and the metadata went out, and a rank waits in comm.Bcast.
C1_RootRaisedOthersWait ==
    /\ oper = "bcast" /\ obj[root].dtype \in SupportedDTypes
    /\ pc[root] = "raised" /\ err[root] = "ValueError"
    /\ \E r \in Ranks : r # root /\ pc[r] = "data"
    /\ \A r \in Ranks : pc[r] \in {"raised", "data"}

\* The broadcast of a contiguous array (of any element type) is right: no
\* rank fails, every rank that returned holds root's array, and a rank that
\* has not returned can take a step or waits for one that can.
BcastOfContiguousArray ==
    (oper = "bcast" /\ obj[root].kind = "ndarray" /\ obj[root].contig)
    => /\ \A r \in Ranks :
            /\ pc[r] # "raised"
            /\ pc[r] = "done" => SameArray(ret[r], obj[root])
       /\ (\A r \in Ranks : pc[r] = "done") \/ ENABLED NextBcast

\* --------------------------------------------- use_buffer_meth: gather
\* use_buffer_meth called from gather:
\* comm.allreduce(is_buffer_obj(obj), op=MPI.MIN).  No rank leaves the
\* reduction before every rank entered it: one step of all ranks.
use_buffer_meth_gather ==
    /\ oper = "gather"
    /\ impl \in {"hybrid", "buffer"}
    /\ \A r \in Ranks : pc[r] = "handshake"
    /\ LET flags == [r \in Ranks |-> IF is_buffer_obj(obj[r]) THEN 1 ELSE 0]
           m == allreduce_MIN(flags)
       IN  /\ use_buffer' = [r \in Ranks |-> m = 1]
           /\ pc' = [r \in Ranks |-> IF m = 1 THEN "shapes" ELSE "generic"]
    /\ posts' = [r \in Ranks |->
                   Append(posts[r], [op |-> "allreduce",
                                     val |-> Flag(is_buffer_obj(obj[r]))])]
    /\ UNCHANGED <<regvars, oper, impl, size, root, obj, recvobj, ret, err, shapes, loop, chan, call>>

\* --------------------------------------------------------------- gather
\* The tag base of the transfers of HybridComm.gather.
key == 147418621

\* arr[:] = sendobj, for the receiver's own entry of arr_list.
OwnCopied(arr_list) ==
    [arr_list EXCEPT ![root + 1] = CopyInto(@, obj[root].data)]

\* The receive loop steps over the receiver's own rank without communicating.
AfterOwn(arr_list, i) == IF i = root THEN OwnCopied(arr_list) ELSE arr_list

NextRank(i) == IF i = root THEN i + 1 ELSE i

\* shapes = np.array(comm.gather(obj.shape, root=root)); on the receiver of
\* HybridComm also arr_list = [np.empty(shape, dtype=sendobj.dtype) ...].
gather_shapes(r) ==
    /\ oper = "gather"
    /\ pc[r] = "shapes"
    /\ r = root => \A q \in Ranks \ {root} : Posted(q, CollIndex(r), "gather")
    /\ posts' = Post(r, "gather", Meta(obj[r].shape, ""))
    /\ IF r # root
       THEN /\ Goto(r, IF impl = "hybrid" THEN "Send" ELSE "Gatherv")
            /\ UNCHANGED <<shapes, recvobj, loop>>
       ELSE LET sh == [i \in 1 .. size |->
                         IF i - 1 = root THEN obj[root].shape
                         ELSE posts[i - 1][CollIndex(r)].val.shape]
                arr_list == [i \in 1 .. size |-> np_empty(sh[i], obj[root].dtype)]
            IN  /\ shapes' = [shapes EXCEPT ![r] = sh]
                /\ IF impl = "hybrid"
                   THEN /\ recvobj' = [recvobj EXCEPT ![r] = List(AfterOwn(arr_list, 0))]
                        /\ loop' = [loop EXCEPT ![r] = NextRank(0)]
                        /\ Goto(r, "Recv")
                   ELSE /\ Goto(r, "Gatherv")
                        /\ UNCHANGED <<recvobj, loop>>
    /\ UNCHANGED <<regvars, oper, impl, size, root, obj, use_buffer, ret, err, chan, call>>

\* HybridComm, senders: comm.Send(sendobj, dest=root, tag=key+self._rank).
gather_Send(r) ==
    /\ oper = "gather"
    /\ pc[r] = "Send"
    /\ IF ~BufferOk(obj[r])
       THEN /\ Raise(r, "ValueError")
            /\ UNCHANGED chan
       ELSE /\ chan' = [chan EXCEPT ![<<r, root>>] =
                          Append(@, Msg(key + r, obj[r], TRUE))]
            /\ Goto(r, "Barrier")
            /\ UNCHANGED <<ret, err>>
    /\ UNCHANGED <<regvars, oper, impl, size, root, obj, use_buffer, recvobj, shapes, loop, posts, call>>

\* HybridComm, receiver: comm.Recv(arr, source=rank, tag=key+rank) for the
\* ranks in increasing order.
gather_Recv(r) ==
    /\ oper = "gather"
    /\ pc[r] = "Recv"
    /\ LET i == loop[r]
           m == FirstMatch(i, r, key + i)
           arr == recvobj[r].data[i + 1]
       IN  /\ m # 0
           /\ chan' = [chan EXCEPT ![<<i, r>>] = Without(@, m)]
           /\ IF Truncates(chan[<<i, r>>][m].val, arr.dtype, Len(arr.data))
              THEN /\ Raise(r, "MPI.Exception")
                   /\ UNCHANGED <<recvobj, loop>>
              ELSE LET got == CopyInto(arr, RawElems(chan[<<i, r>>][m].val, arr.dtype))
                       lst == [recvobj[r].data EXCEPT ![i + 1] = got]
                   IN  /\ recvobj' = [recvobj EXCEPT ![r] = List(AfterOwn(lst, i + 1))]
                       /\ loop' = [loop EXCEPT ![r] = NextRank(i + 1)]
                       /\ Goto(r, IF NextRank(i + 1) >= size THEN "Barrier" ELSE "Recv")
                       /\ UNCHANGED <<ret, err>>
    /\ UNCHANGED <<regvars, oper, impl, size, root, obj, use_buffer, shapes, posts, call>>

\* A variant without the barrier: every rank returns when it has come to
\* the end of its transfers.
gather_no_Barrier ==
    /\ oper = "gather"
    /\ \E r \in Ranks :
          /\ pc[r] = "Barrier"
          /\ posts' = Post(r, "Barrier", None)
          /\ ret' = [ret EXCEPT ![r] = IF r = root THEN recvobj[r] ELSE None]
          /\ pc' = [pc EXCEPT ![r] = "done"]
    /\ UNCHANGED <<regvars, oper, impl, size, root, obj, use_buffer, recvobj, err, shapes, loop, chan, call>>

\* HybridComm: comm.Barrier(), then return recvobj.  No rank leaves the
\* barrier before every rank entered it: one step of all ranks.
gather_Barrier ==
    /\ oper = "gather"
    /\ \A r \in Ranks : pc[r] = "Barrier"
    /\ posts' = [r \in Ranks |-> Append(posts[r], [op |-> "Barrier", val |-> None])]
    /\ ret' = [r \in Ranks |-> IF r = root THEN recvobj[r] ELSE None]
    /\ pc' = [r \in Ranks |-> "done"]
    /\ UNCHANGED <<regvars, oper, impl, size, root, obj, use_buffer, recvobj, err, shapes, loop, chan, call>>

\* Generic path: recvobj = comm.gather(sendobj, root=root), then return it.
gather_generic(r) ==
    /\ oper = "gather"
    /\ pc[r] = "generic"
    /\ IF too_large(obj[r])
       THEN /\ \E e \in TransportErrors : Raise(r, reraised(e))
            /\ UNCHANGED posts
       ELSE /\ r = root => \A q \in Ranks \ {root} : Posted(q, CollIndex(r), "gather")
            /\ posts' = Post(r, "gather", obj[r])
            /\ Return(r, IF r # root THEN None
                         ELSE List([i \in 1 .. size |->
                                      IF i - 1 = root THEN obj[root]
                                      ELSE posts[i - 1][CollIndex(r)].val]))
    /\ UNCHANGED <<regvars, oper, impl, size, root, obj, use_buffer, recvobj, shapes, loop, chan, call>>

\* ------------------------------- BufferComm.gather: shape reconciliation
RECURSIVE SumTo(_, _)
\* f[1] + ... + f[n]
SumTo(f, n) == IF n = 0 THEN 0 ELSE f[n] + SumTo(f, n - 1)

Max(S) == CHOOSE m \in S : \A x \in S : x <= m

\* A variant of counts that reserves one element for an array of no element.
counts_with_dummy(sh) ==
    [i \in 1 .. Len(sh) |-> IF Prod(sh[i]) = 0 THEN 1 ELSE Prod(sh[i])]

\* counts = np.product(shapes, axis=1)
counts(sh) == [i \in 1 .. Len(sh) |-> Prod(sh[i])]

\* disps = np.cumsum([0, *counts[:-1]])
disps(sh) == [i \in 1 .. Len(sh) |-> SumTo(counts(sh), i - 1)]

\* max_size = np.max(shapes, axis=0)
max_size(sh) ==
    [a \in 1 .. Len(sh[1]) |-> Max({sh[i][a] : i \in 1 .. Len(sh)})]

\* diff_size = ~np.all(np.equal(shapes, max_size), axis=0)
diff_size(sh) ==
    [a \in 1 .. Len(sh[1]) |-> ~(\A i \in 1 .. Len(sh) : sh[i][a] = max_size(sh)[a])]

\* sum(diff_size)
sum_diff_size(sh) == Cardinality({a \in 1 .. Len(sh[1]) : diff_size(sh)[a]})

\* diff_axis = np.nonzero(diff_size)[0][0] if sum(diff_size) else 0
\* (axes count from 1 here, from 0 in the source)
diff_axis(sh) ==
    IF sum_diff_size(sh) > 0
    THEN CHOOSE a \in 1 .. Len(sh[1]) :
            /\ diff_size(sh)[a]
            /\ \A b \in 1 .. (a - 1) : ~diff_size(sh)[b]
    ELSE 1

\* A variant of buff_shape that leaves the differing axis at its maximum.
buff_shape_max(sh) == max_size(sh)

\* buff_shape[diff_axis] and shapes[:, diff_axis] index an axis that the
\* shapes do not have: NumPy raises IndexError.
index_out_of_bounds(sh) == diff_axis(sh) \notin DOMAIN max_size(sh)

\* buff_shape = max_size; buff_shape[diff_axis] = np.sum(shapes[:, diff_axis])
buff_shape(sh) ==
    [max_size(sh) EXCEPT ![diff_axis(sh)] =
        SumTo([i \in 1 .. Len(sh) |-> sh[i][diff_axis(sh)]], Len(sh))]

\* buff_size = np.product(buff_shape)
buff_size(sh) == Prod(buff_shape(sh))

\* What comm.Gatherv leaves in the receive buffer [recv_obj, counts, disps,
\* datatype]: the elements of rank i - 1 from position disps[i] on.
Gatherv_recv(sh, dtype, sent) ==
    [j \in 1 .. buff_size(sh) |->
        IF \E i \in 1 .. Len(sh) :
              j > disps(sh)[i] /\ j <= disps(sh)[i] + Len(RawElems(sent[i], dtype))
        THEN LET i == CHOOSE i \in 1 .. Len(sh) :
                        j > disps(sh)[i]
                        /\ j <= disps(sh)[i] + Len(RawElems(sent[i], dtype))
             IN  RawElems(sent[i], dtype)[j - disps(sh)[i]]
        ELSE Uninit]

\* arr_list = np.split(recv_obj, disps[1:]): the i-th section.
np_split(data, sh, i) ==
    SubSeq(data, disps(sh)[i] + 1,
           IF i < Len(sh) THEN disps(sh)[i + 1] ELSE Len(data))

\* BufferComm: comm.Gatherv.  The receiver first checks the shapes and looks
\* the element type up, then gathers, splits and reshapes; a sender sends.
gather_Gatherv(r) ==
    /\ oper = "gather"
    /\ pc[r] = "Gatherv"
    /\ IF r # root
       THEN IF ~BufferOk(obj[r])
            THEN /\ Raise(r, "ValueError")
                 /\ UNCHANGED posts
            ELSE /\ posts' = Post(r, "Gatherv", obj[r])
                 /\ Return(r, None)
       ELSE LET sh == shapes[r]
                dtype == obj[r].dtype
            IN  IF sum_diff_size(sh) > 1
                THEN /\ Raise(r, "ShapeError")
                     /\ UNCHANGED posts
                ELSE IF index_out_of_bounds(sh)
                THEN /\ Raise(r, "IndexError")
                     /\ UNCHANGED posts
                ELSE IF dtype \notin DOMAIN dtype_dict
                THEN /\ Raise(r, "KeyError")
                     /\ UNCHANGED posts
                ELSE /\ \A q \in Ranks \ {root} : Posted(q, CollIndex(r), "Gatherv")
                     /\ posts' = Post(r, "Gatherv", obj[r])
                     /\ LET sent == [i \in 1 .. size |->
                                       IF i - 1 = root THEN obj[r]
                                       ELSE posts[i - 1][CollIndex(r)].val]
                            data == Gatherv_recv(sh, dtype, sent)
                        IN  IF \E i \in 1 .. size :
                                  Truncates(sent[i], dtype, counts(sh)[i])
                            THEN Raise(r, "MPI.Exception")
                            ELSE IF \E i \in 1 .. size :
                                  Len(np_split(data, sh, i)) # Prod(sh[i])
                            THEN Raise(r, "ValueError")
                            ELSE Return(r, List([i \in 1 .. size |->
                                     Obj("ndarray", sh[i], dtype, TRUE,
                                         np_split(data, sh, i))]))
    /\ UNCHANGED <<regvars, oper, impl, size, root, obj, use_buffer, recvobj, shapes, loop, chan, call>>

\* ---------------------------------------------------- inputs of gather
\* What a rank may pass: two-dimensional float64 arrays of several shapes,
\* one of them also not contiguous or of another element type, and a list.
GatherShapes ==
    {<<MaxExtent, MaxExtent>>, <<1, MaxExtent>>, <<MaxExtent, 1>>, <<0, MaxExtent>>}

\* The payloads, before the rank's contents are filled in.
GatherTemplates ==
    {Arr(s, "float64", TRUE, 0) : s \in GatherShapes}
      \cup {Arr(<<MaxExtent, MaxExtent>>, "float64", FALSE, 0),
            Arr(<<MaxExtent, MaxExtent>>, "int32", TRUE, 0),
            Arr(<<MaxExtent, MaxExtent>>, "complex128", TRUE, 0),
            List(<<0>>), TooManyBytes}

\* The payload of the rank with the given seed.
Seeded(t, seed) == [t EXCEPT !.data = [i \in 1 .. Len(t.data) |-> seed * 100 + i]]

InitGather ==
    /\ InitCommon
    /\ oper = "gather"
    /\ impl \in {"hybrid", "buffer"}
    /\ \E t \in [0 .. (size - 1) -> GatherTemplates] :
          obj = [r \in 0 .. (size - 1) |-> Seeded(t[r], r + 1)]

NextGather ==
    \/ use_buffer_meth_gather
    \/ \E r \in Ranks : gather_shapes(r)
    \/ \E r \in Ranks : gather_Send(r)
    \/ \E r \in Ranks : gather_Recv(r)
    \/ gather_Barrier
    \/ \E r \in Ranks : gather_generic(r)
    \/ \E r \in Ranks : gather_Gatherv(r)

SpecGather == InitGather /\ [][NextGather]_vars

\* The shapes of obj with n axes.
ShapesOfDim(n) ==
    CASE n = 0 -> {<<>>}
      [] n = 1 -> {<<0>>, <<1>>, <<MaxExtent>>}
      [] OTHER -> GatherShapes

\* gather called on every rank; on BufferComm with contiguous float64 arrays
\* of every table of shapes of equal dimension count.
InitGatherShapes ==
    /\ InitCommon
    /\ oper = "gather"
    /\ impl \in {"hybrid", "buffer", "toplevel"}
    /\ \/ \E t \in [0 .. (size - 1) ->
                     {Arr(<<MaxExtent, MaxExtent>>, "float64", TRUE, 0), List(<<0>>),
                      List(<<0, 0>>)}] :
             obj = [r \in 0 .. (size - 1) |-> Seeded(t[r], r + 1)]
       \/ /\ impl \in {"buffer", "toplevel"}
          /\ \E n \in 0 .. 2 : \E t \in [0 .. (size - 1) -> ShapesOfDim(n)] :
                obj = [r \in 0 .. (size - 1) |-> Arr(t[r], "float64", TRUE, r + 1)]

\* ------------------------- BufferComm.gather of mpi4pyd/_buffer_comm.py
\* This gather makes no handshake: every rank decides by itself with
\* isinstance(obj, np.ndarray).  ("handshake" is the position at which every
\* call starts.)
top_isinstance(r) ==
    /\ oper = "gather"
    /\ impl = "toplevel"
    /\ pc[r] = "handshake"
    /\ use_buffer' = [use_buffer EXCEPT ![r] = obj[r].kind = "ndarray"]
    /\ Goto(r, IF obj[r].kind = "ndarray" THEN "top_shapes" ELSE "generic")
    /\ UNCHANGED <<regvars, oper, impl, size, root, obj, recvobj, ret, err, shapes, loop, posts, chan, call>>

\* shapes = comm.gather(obj.shape, root=root), and on root
\* buff_shape = (size, np.product(np.max(shapes, axis=0))), buff = np.empty(...).
\* np.max fails on a table that is not rectangular (ValueError or TypeError,
\* by the version of NumPy); for shapes of no axis the product is the float
\* 1.0, which np.empty refuses.  (AsRow: what np.max reads of one gathered
\* entry, a shape tuple or a list of numbers that another rank passed as its
\* object; Rectangular: the entries make a rectangular table of numbers.)
top_shapes(r) ==
    /\ oper = "gather"
    /\ impl = "toplevel"
    /\ pc[r] = "top_shapes"
    /\ r = root => \A q \in Ranks \ {root} : Posted(q, CollIndex(r), "gather")
    /\ posts' = Post(r, "gather", Meta(obj[r].shape, ""))
    /\ IF r # root
       THEN /\ Goto(r, "top_Gatherv")
            /\ UNCHANGED <<shapes, ret, err>>
       ELSE LET got == [i \in 1 .. size |->
                          IF i - 1 = root THEN Meta(obj[root].shape, "")
                          ELSE posts[i - 1][CollIndex(r)].val]
                AsRow(v) == IF v.kind = "meta" THEN v.shape ELSE v.data
                Rectangular ==
                    /\ \A i \in 1 .. size : got[i].kind \in {"meta", "list"}
                    /\ \A i, k \in 1 .. size : Len(AsRow(got[i])) = Len(AsRow(got[k]))
            IN  IF ~Rectangular
                THEN /\ \E e \in {"ValueError", "TypeError"} : Raise(r, e)
                     /\ UNCHANGED shapes
                ELSE IF obj[root].shape = <<>>
                THEN /\ Raise(r, "TypeError")
                     /\ UNCHANGED shapes
                ELSE /\ shapes' = [shapes EXCEPT ![r] = [i \in 1 .. size |-> AsRow(got[i])]]
                     /\ Goto(r, "top_Gatherv")
                     /\ UNCHANGED <<ret, err>>
    /\ UNCHANGED <<regvars, oper, impl, size, root, obj, use_buffer, recvobj, loop, chan, call>>

\* if not np.all(obj.shape): obj = np.empty([1]*obj.ndim, dtype=obj.dtype);
\* obj.ravel() is what the rank hands to comm.Gatherv.
top_sendbuf(o) ==
    IF Prod(o.shape) = 0
    THEN np_empty(<<1>>, o.dtype)
    ELSE Obj("ndarray", <<Prod(o.shape)>>, o.dtype, TRUE, o.data)

\* comm.Gatherv(obj.ravel(), buff, root=root) and, on root,
\* array[:np.product(shape)].reshape(shape) for every row of buff.  Every rank
\* has a row of `width` elements in buff (top_row); a row of no element
\* receives nothing.
top_Gatherv(r) ==
    /\ oper = "gather"
    /\ impl = "toplevel"
    /\ pc[r] = "top_Gatherv"
    /\ IF r # root
       THEN /\ posts' = Post(r, "Gatherv", top_sendbuf(obj[r]))
            /\ Return(r, None)
       ELSE LET sh == shapes[r]
                dtype == obj[r].dtype
                width == Prod(max_size(sh))
                sent == [i \in 1 .. size |->
                           IF i - 1 = root THEN top_sendbuf(obj[r])
                           ELSE posts[i - 1][CollIndex(r)].val]
                top_row(i) ==
                    [j \in 1 .. width |->
                        IF j <= Len(RawElems(sent[i], dtype))
                        THEN RawElems(sent[i], dtype)[j] ELSE Uninit]
            IN  /\ \A q \in Ranks \ {root} : Posted(q, CollIndex(r), "Gatherv")
                /\ posts' = Post(r, "Gatherv", top_sendbuf(obj[r]))
                /\ IF width > 0 /\ \E i \in 1 .. size : Truncates(sent[i], dtype, width)
                   THEN Raise(r, "MPI.Exception")
                   ELSE Return(r, List([i \in 1 .. size |->
                            Obj("ndarray", sh[i], dtype, TRUE,
                                SubSeq(top_row(i), 1, Prod(sh[i])))]))
    /\ UNCHANGED <<regvars, oper, impl, size, root, obj, use_buffer, recvobj, shapes, loop, chan, call>>

NextGatherShapes ==
    \/ use_buffer_meth_gather
    \/ \E r \in Ranks : gather_shapes(r)
    \/ \E r \in Ranks : gather_Send(r)
    \/ \E r \in Ranks : gather_Recv(r)
    \/ gather_Barrier
    \/ \E r \in Ranks : gather_generic(r)
    \/ \E r \in Ranks : gather_Gatherv(r)
    \/ \E r \in Ranks : top_isinstance(r)
    \/ \E r \in Ranks : top_shapes(r)
    \/ \E r \in Ranks : top_Gatherv(r)

SpecGatherShapes == InitGatherShapes /\ [][NextGatherShapes]_vars

\* Every rank passed an array.
AllArrays == \A r \in Ranks : obj[r].kind = "ndarray"

\* The axes in which the shapes of the arrays passed differ (all arrays have
\* the same number of dimensions).
DifferingAxes ==
    {a \in 1 .. Len(obj[0].shape) :
        \E r \in Ranks : obj[r].shape[a] # obj[0].shape[a]}

\* The result of gather on rank r is what the claims say: on root the list
\* whose element i has the shape and the values of the array of rank i, on
\* the other ranks None.
GatherResultRight(r) ==
    IF r = root
    THEN /\ ret[r].kind = "list"
         /\ Len(ret[r].data) = size
         /\ \A i \in Ranks :
               /\ ret[r].data[i + 1].kind = "ndarray"
               /\ ret[r].data[i + 1].shape = obj[i].shape
               /\ ret[r].data[i + 1].data = obj[i].data
    ELSE ret[r] = None

\* C2: when all ranks pass arrays of identical shape, gather fails on no
\* rank, root's result is the list of the n arrays in rank order, and the
\* result on every other rank is None.
C2_GatherIdenticalShapes ==
    (oper = "gather" /\ AllArrays /\ DifferingAxes = {})
    => \A r \in Ranks :
          /\ pc[r] # "raised"
          /\ pc[r] = "done" => GatherResultRight(r)

\* C3: when the arrays differ in size in exactly one axis, gather fails on
\* no rank and root's result holds at index i an array with the shape and
\* the values of the array of rank i.
C3_GatherOneAxisDiffers ==
    (oper = "gather" /\ AllArrays /\ Cardinality(DifferingAxes) = 1)
    => /\ \A r \in Ranks : pc[r] # "raised"
       /\ pc[root] = "done" => GatherResultRight(root)

\* A rank has handed array data to the transport in this call.
SentData(r) ==
    \/ \E d \in Ranks : chan[<<r, d>>] # <<>>
    \/ \E k \in 1 .. Len(posts[r]) : posts[r][k].op = "Gatherv"
    \/ pc[r] \in {"Barrier", "done"} /\ use_buffer[r] /\ r # root

\* C6: when the arrays differ in size in two or more axes, no rank returns
\* from gather without the shape-mismatch error, and no rank transmits
\* array data.
C6_GatherTwoAxesDifferFails ==
    (oper = "gather" /\ AllArrays /\ Cardinality(DifferingAxes) >= 2)
    => \A r \in Ranks :
          /\ pc[r] # "done"
          /\ pc[r] = "raised" => err[r] = "ShapeError"
          /\ ~SentData(r)

\* Gather of contiguous arrays of one element type of dtype_dict, which for
\* BufferComm differ in at most one axis: no rank fails, every rank that
\* returned has the right result, and the call does not get stuck.
GatherOfContiguousArrays ==
    (/\ oper = "gather" /\ AllArrays
     /\ \A r \in Ranks : obj[r].contig /\ obj[r].dtype = obj[0].dtype
     /\ obj[0].dtype \in SupportedDTypes
     /\ impl = "buffer" => Cardinality(DifferingAxes) <= 1)
    => /\ \A r \in Ranks :
            /\ pc[r] # "raised"
            /\ pc[r] = "done" => GatherResultRight(r)
       /\ (\A r \in Ranks : pc[r] = "done") \/ ENABLED NextGather

\* -------------------------------------------------------------- scatter
\* recvobj.squeeze(): the dimensions of extent 1 removed.
squeeze(a) == [a EXCEPT !.shape = SelectSeq(a.shape, LAMBDA n : n # 1)]

\* The part of root's array that comm.Scatter gives to rank r: an equal
\* share of the elements, in rank order.
ScatterShare(a, r) ==
    [a EXCEPT !.data = SubSeq(a.data, r * (Len(a.data) \div size) + 1,
                              (r + 1) * (Len(a.data) \div size))]

\* A variant of the first half in which root does not check the leading
\* dimension before it broadcasts the shape and element type.
scatter_meta_unchecked(r) ==
    /\ oper = "scatter"
    /\ pc[r] = "meta"
    /\ FromRootReady(r, "bcast")
    /\ LET mine == IF r = root
                   THEN Meta([obj[r].shape EXCEPT ![1] = @ \div size], obj[r].dtype)
                   ELSE None
       IN  /\ recvobj' = [recvobj EXCEPT ![r] =
                            np_empty(comm_bcast(r, mine).shape, comm_bcast(r, mine).dtype)]
           /\ posts' = Post(r, "bcast", mine)
    /\ Goto(r, "Scatter")
    /\ UNCHANGED <<regvars, oper, impl, size, root, obj, use_buffer, ret, err, shapes, loop, chan, call>>

\* Buffer path, first half.  Root checks len(sendobj) % self._size, then
\* recvobj = np.empty(*comm.bcast([buff_shape, sendobj.dtype], root)).
\* Others: recvobj = np.empty(*comm.bcast(None, root)).
scatter_meta(r) ==
    /\ oper = "scatter"
    /\ pc[r] = "meta"
    /\ IF r = root /\ obj[r].shape = <<>>
       THEN /\ Raise(r, "TypeError")
            /\ UNCHANGED <<posts, recvobj>>
       ELSE IF r = root /\ obj[r].shape[1] % size # 0
       THEN /\ Raise(r, "ShapeError")
            /\ UNCHANGED <<posts, recvobj>>
       ELSE /\ FromRootReady(r, "bcast")
            /\ LET mine == IF r = root
                           THEN Meta([obj[r].shape EXCEPT ![1] = @ \div size],
                                     obj[r].dtype)
                           ELSE None
                   m == comm_bcast(r, mine)
               IN  /\ recvobj' = [recvobj EXCEPT ![r] = np_empty(m.shape, m.dtype)]
                   /\ posts' = Post(r, "bcast", mine)
            /\ Goto(r, "Scatter")
            /\ UNCHANGED <<ret, err>>
    /\ UNCHANGED <<regvars, oper, impl, size, root, obj, use_buffer, shapes, loop, chan, call>>

\* Buffer path, second half: comm.Scatter(sendobj, recvobj, root), then
\* return recvobj.squeeze().
scatter_Scatter(r) ==
    /\ oper = "scatter"
    /\ pc[r] = "Scatter"
    /\ IF r = root /\ ~BufferOk(obj[r])
       THEN /\ Raise(r, "ValueError")
            /\ UNCHANGED <<posts, recvobj>>
       ELSE /\ FromRootReady(r, "Scatter")
            /\ LET sent == IF r = root THEN obj[r] ELSE posts[root][CollIndex(r)].val
                   a == CopyInto(recvobj[r],
                                 RawElems(ScatterShare(sent, r), recvobj[r].dtype))
               IN  /\ recvobj' = [recvobj EXCEPT ![r] = a]
                   /\ Return(r, squeeze(a))
            /\ posts' = Post(r, "Scatter", IF r = root THEN obj[r] ELSE None)
    /\ UNCHANGED <<regvars, oper, impl, size, root, obj, use_buffer, shapes, loop, chan, call>>

\* Generic path: recvobj = comm.scatter(sendobj, root), then return it.
\* Root must pass a sequence of one item per rank.
scatter_generic(r) ==
    /\ oper = "scatter"
    /\ pc[r] = "generic"
    /\ IF r = root /\ (obj[r].kind # "list" \/ Len(obj[r].data) # size)
       THEN /\ Raise(r, "ValueError")
            /\ UNCHANGED posts
       ELSE IF r = root /\ \E i \in 1 .. size : too_large(obj[r].data[i])
       THEN /\ \E e \in TransportErrors : Raise(r, reraised(e))
            /\ UNCHANGED posts
       ELSE /\ FromRootReady(r, "scatter")
            /\ Return(r, IF r = root THEN obj[r].data[r + 1]
                         ELSE posts[root][CollIndex(r)].val.data[r + 1])
            /\ posts' = Post(r, "scatter", obj[r])
    /\ UNCHANGED <<regvars, oper, impl, size, root, obj, use_buffer, recvobj, shapes, loop, chan, call>>

\* ---------------------------------------------------- inputs of scatter
\* The shapes root may pass in a group of n ranks: no dimension at all, or a
\* leading dimension of 0, n, 2*n or 2*n + 1 and up to one further dimension.
ScatterShapes(n) ==
    {<<>>} \cup {<<l>> \o t : l \in {0, n, 2 * n, 2 * n + 1},
                             t \in {<<>>, <<1>>, <<MaxExtent>>}}

\* A list of n items.
ItemList(n) == List([i \in 1 .. n |-> List(<<i>>)])

\* A list of n items of 2**31 bytes each.
LargeItemList(n) == List([i \in 1 .. n |-> TooManyBytes])

ScatterOtherPayloads == {None, Arr(<<MaxExtent>>, "float64", TRUE, 9)}

InitScatter ==
    /\ InitCommon
    /\ oper = "scatter"
    /\ impl \in {"hybrid", "buffer"}
    /\ \E p \in Arrays(ScatterShapes(size), 1) \cup {ItemList(size), ItemList(size + 1), LargeItemList(size), None} :
         \E q \in [0 .. (size - 1) -> ScatterOtherPayloads] :
            /\ q[root] = None
            /\ obj = [r \in 0 .. (size - 1) |-> IF r = root THEN p ELSE q[r]]

NextScatter ==
    \/ \E r \in Ranks : use_buffer_meth_bcast(r)
    \/ \E r \in Ranks : scatter_meta(r)
    \/ \E r \in Ranks : scatter_Scatter(r)
    \/ \E r \in Ranks : scatter_generic(r)

SpecScatter == InitScatter /\ [][NextScatter]_vars

\* Every rank's call has ended, by returning or by raising.
AllEnded == \A r \in Ranks : pc[r] \in {"done", "raised"}

\* The rows of root's array that rank r is to receive when the leading
\* dimension is 2*n: rows 2r and 2r+1, as an array of leading dimension 2.
TwoRows(r) ==
    [obj[root] EXCEPT
        !.shape = [@ EXCEPT ![1] = 2],
        !.data = SubSeq(@, r * (Len(@) \div size) + 1, (r + 1) * (Len(@) \div size))]

LeadingIs(n) ==
    obj[root].kind = "ndarray" /\ obj[root].shape # <<>> /\ obj[root].shape[1] = n

\* C4: when root's array has leading dimension 2*n, scatter fails on no
\* rank and rank r receives rows 2r and 2r+1 of root's array; these slices
\* are disjoint and, put together in rank order, are root's array.
C4_ScatterTwoRowsEach ==
    (oper = "scatter" /\ LeadingIs(2 * size))
    => \A r \in Ranks :
          /\ pc[r] # "raised"
          /\ pc[r] = "done" => SameArray(ret[r], TwoRows(r))

\* C7: when the leading dimension of root's contiguous array of a supported
\* element type is not divisible by the group size, root fails with the
\* uneven-distribution error and the call does not hang: as long as a rank
\* has not ended its call, some rank can take a step.
C7_UnevenScatterDoesNotHang ==
    (oper = "scatter" /\ obj[root].kind = "ndarray" /\ obj[root].contig
        /\ obj[root].dtype \in SupportedDTypes /\ obj[root].shape # <<>>
        /\ obj[root].shape[1] % size # 0)
    => /\ pc[root] = "raised" => err[root] = "ShapeError"
       /\ AllEnded \/ ENABLED NextScatter

\* Scatter of a contiguous array whose leading dimension the group size
\* divides: no rank fails, rank r returns its share of the rows with the
\* dimensions of extent 1 removed, and the call does not get stuck.
ScatterOfContiguousArray ==
    (oper = "scatter" /\ obj[root].kind = "ndarray" /\ obj[root].contig
        /\ obj[root].shape # <<>> /\ obj[root].shape[1] % size = 0)
    => /\ \A r \in Ranks :
            /\ pc[r] # "raised"
            /\ pc[r] = "done" =>
                 ret[r] = squeeze([ScatterShare(obj[root], r) EXCEPT
                                     !.shape = [@ EXCEPT ![1] = @ \div size]])
       /\ AllEnded \/ ENABLED NextScatter

\* -------------------------------------------------------- send and recv
\* A variant of the transport that puts a message in front of those
\* already under way.
Sent_in_front(r, val, raw) ==
    [chan EXCEPT ![<<r, call[r].peer>>] = <<Msg(call[r].tag, val, raw)>> \o @]

\* comm.send / comm.Send return once the message is handed to the
\* transport (a standard-mode send the transport buffers).
Sent(r, val, raw) ==
    [chan EXCEPT ![<<r, call[r].peer>>] = Append(@, Msg(call[r].tag, val, raw))]

\* The message that a receive of rank r from sender s takes.
Taken(r, s) == chan[<<s, r>>][FirstMatch(s, r, call[r].tag)]

\* The channels after that message is taken.
Received(r, s) ==
    [chan EXCEPT ![<<s, r>>] = Without(@, FirstMatch(s, r, call[r].tag))]

\* use_buffer_meth called from send:
\* buff_flag = is_buffer_obj(obj); comm.send(buff_flag, dest=src_dest, tag=tag).
use_buffer_meth_send(r) ==
    /\ oper = "p2p"
    /\ call[r].meth = "send"
    /\ pc[r] = "handshake"
    /\ chan' = Sent(r, Flag(is_buffer_obj(obj[r])), FALSE)
    /\ use_buffer' = [use_buffer EXCEPT ![r] = is_buffer_obj(obj[r])]
    /\ Goto(r, IF is_buffer_obj(obj[r]) THEN "meta" ELSE "generic")
    /\ UNCHANGED <<regvars, oper, impl, size, root, obj, recvobj, ret, err, shapes, loop, posts, call>>

\* Buffer path: comm.send([obj.shape, obj.dtype], dest=dest, tag=tag).
send_meta(r) ==
    /\ oper = "p2p"
    /\ call[r].meth = "send"
    /\ pc[r] = "meta"
    /\ chan' = Sent(r, Meta(obj[r].shape, obj[r].dtype), FALSE)
    /\ Goto(r, "data")
    /\ UNCHANGED <<regvars, oper, impl, size, root, obj, use_buffer, recvobj, ret, err, shapes, loop, posts, call>>

\* Buffer path: comm.Send(obj, dest=dest, tag=tag); send returns None.
send_Send(r) ==
    /\ oper = "p2p"
    /\ call[r].meth = "send"
    /\ pc[r] = "data"
    /\ IF ~BufferOk(obj[r])
       THEN /\ Raise(r, "ValueError")
            /\ UNCHANGED chan
       ELSE /\ chan' = Sent(r, obj[r], TRUE)
            /\ Return(r, None)
    /\ UNCHANGED <<regvars, oper, impl, size, root, obj, use_buffer, recvobj, shapes, loop, posts, call>>

\* Generic path: comm.send(obj, dest=dest, tag=tag); send returns None.
send_generic(r) ==
    /\ oper = "p2p"
    /\ call[r].meth = "send"
    /\ pc[r] = "generic"
    /\ chan' = Sent(r, obj[r], FALSE)
    /\ Return(r, None)
    /\ UNCHANGED <<regvars, oper, impl, size, root, obj, use_buffer, recvobj, shapes, loop, posts, call>>

\* use_buffer_meth called from recv: comm.recv(obj, source=src_dest, tag=tag).
\* What it returns decides the path; raw memory is no pickle.
use_buffer_meth_recv(r) ==
    /\ oper = "p2p"
    /\ call[r].meth = "recv"
    /\ pc[r] = "handshake"
    /\ \E s \in Senders(r, call[r].peer, call[r].tag) :
          /\ chan' = Received(r, s)
          /\ IF Taken(r, s).raw \/ Taken(r, s).val.kind # "bool"
             THEN /\ Raise(r, "UnpicklingError")
                  /\ UNCHANGED use_buffer
             ELSE /\ use_buffer' = [use_buffer EXCEPT ![r] = Taken(r, s).val.data[1] = 1]
                  /\ Goto(r, IF use_buffer'[r] THEN "meta" ELSE "generic")
                  /\ UNCHANGED <<ret, err>>
    /\ UNCHANGED <<regvars, oper, impl, size, root, obj, recvobj, shapes, loop, posts, call>>

\* Buffer path: recvobj = np.empty(*comm.recv(source=source, tag=tag)).
recv_meta(r) ==
    /\ oper = "p2p"
    /\ call[r].meth = "recv"
    /\ pc[r] = "meta"
    /\ \E s \in Senders(r, call[r].peer, call[r].tag) :
          /\ chan' = Received(r, s)
          /\ IF Taken(r, s).raw \/ Taken(r, s).val.kind # "meta"
             THEN /\ Raise(r, "TypeError")
                  /\ UNCHANGED recvobj
             ELSE /\ recvobj' = [recvobj EXCEPT ![r] =
                                   np_empty(Taken(r, s).val.shape, Taken(r, s).val.dtype)]
                  /\ Goto(r, "data")
                  /\ UNCHANGED <<ret, err>>
    /\ UNCHANGED <<regvars, oper, impl, size, root, obj, use_buffer, shapes, loop, posts, call>>

\* Buffer path: comm.Recv(recvobj, source=source, tag=tag), return recvobj.
recv_Recv(r) ==
    /\ oper = "p2p"
    /\ call[r].meth = "recv"
    /\ pc[r] = "data"
    /\ \E s \in Senders(r, call[r].peer, call[r].tag) :
          /\ chan' = Received(r, s)
          /\ IF Taken(r, s).val.kind # "ndarray"
             THEN /\ Return(r, [recvobj[r] EXCEPT
                                  !.data = [i \in 1 .. Len(@) |-> Junk]])
                  /\ UNCHANGED recvobj
             ELSE IF Truncates(Taken(r, s).val, recvobj[r].dtype, Len(recvobj[r].data))
             THEN /\ Raise(r, "MPI.Exception")
                  /\ UNCHANGED recvobj
             ELSE LET a == CopyInto(recvobj[r],
                                    RawElems(Taken(r, s).val, recvobj[r].dtype))
                  IN  /\ recvobj' = [recvobj EXCEPT ![r] = a]
                      /\ Return(r, a)
    /\ UNCHANGED <<regvars, oper, impl, size, root, obj, use_buffer, shapes, loop, posts, call>>

\* Generic path: recvobj = comm.recv(source=source, tag=tag), return it.
recv_generic(r) ==
    /\ oper = "p2p"
    /\ call[r].meth = "recv"
    /\ pc[r] = "generic"
    /\ \E s \in Senders(r, call[r].peer, call[r].tag) :
          /\ chan' = Received(r, s)
          /\ IF Taken(r, s).raw
             THEN Raise(r, "UnpicklingError")
             ELSE Return(r, Taken(r, s).val)
    /\ UNCHANGED <<regvars, oper, impl, size, root, obj, use_buffer, recvobj, shapes, loop, posts, call>>

\* ---------------------------------------------- inputs of send and recv
\* The larger tag of the calls.
MaxTag == 1

P2PPayloads == Arrays(BcastShapes, 1) \cup {List(<<1, 2>>), None}

\* One rank s sends p to d with tag t; d receives, naming the source and the
\* tag or leaving them at the wildcard defaults; other ranks make no call.
InitP2P ==
    /\ InitFresh
    /\ NoProgram
    /\ oper = "p2p"
    /\ impl = "hybrid"
    /\ root = 0
    /\ \E s \in 0 .. (size - 1), d \in 0 .. (size - 1), t \in 0 .. MaxTag,
          p \in P2PPayloads, anys \in BOOLEAN, anyt \in BOOLEAN :
          /\ s # d
          /\ pc = [r \in 0 .. (size - 1) |->
                     IF r \in {s, d} THEN "handshake" ELSE "done"]
          /\ obj = [r \in 0 .. (size - 1) |-> IF r = s THEN p ELSE None]
          /\ call = [r \in 0 .. (size - 1) |->
                       IF r = s THEN [meth |-> "send", peer |-> d, tag |-> t]
                       ELSE IF r = d
                       THEN [meth |-> "recv",
                             peer |-> IF anys THEN ANY_SOURCE ELSE s,
                             tag |-> IF anyt THEN ANY_TAG ELSE t]
                       ELSE NoCall]

NextP2P ==
    \/ \E r \in Ranks : use_buffer_meth_send(r)
    \/ \E r \in Ranks : send_meta(r)
    \/ \E r \in Ranks : send_Send(r)
    \/ \E r \in Ranks : send_generic(r)
    \/ \E r \in Ranks : use_buffer_meth_recv(r)
    \/ \E r \in Ranks : recv_meta(r)
    \/ \E r \in Ranks : recv_Recv(r)
    \/ \E r \in Ranks : recv_generic(r)

SpecP2P == InitP2P /\ [][NextP2P]_vars

\* The rank that sends and the rank that receives in this behaviour.
Sender == CHOOSE r \in Ranks : call[r].meth = "send"

Receiver == CHOOSE r \in Ranks : call[r].meth = "recv"

\* What recv returned is equal to what send was given.
RoundTrip ==
    IF obj[Sender].kind = "ndarray"
    THEN SameArray(ret[Receiver], obj[Sender])
    ELSE ret[Receiver] = obj[Sender]

\* C5: a recv(source=s, tag=t) on d matched with a send(p, dest=d, tag=t) on
\* s returns a value equal to p, for every payload p: neither call fails,
\* and the value recv returns is p.
C5_SendRecvRoundTrip ==
    (oper = "p2p" /\ call[Receiver].peer = Sender
        /\ call[Receiver].tag = call[Sender].tag)
    => /\ pc[Sender] # "raised" /\ pc[Receiver] # "raised"
       /\ pc[Receiver] = "done" => RoundTrip

\* The round trip of every payload other than an array that is not
\* contiguous, also with the wildcard defaults of recv: neither call fails,
\* recv returns what send was given, nothing stays in the channels once both
\* returned, and the exchange does not get stuck.
RoundTripOfContiguous ==
    (oper = "p2p" /\ (obj[Sender].kind = "ndarray" => obj[Sender].contig))
    => /\ pc[Sender] # "raised" /\ pc[Receiver] # "raised"
       /\ pc[Receiver] = "done" => RoundTrip
       /\ (pc[Sender] = "done" /\ pc[Receiver] = "done")
            => \A c \in DOMAIN chan : chan[c] = <<>>
       /\ (pc[Sender] = "done" /\ pc[Receiver] = "done") \/ ENABLED NextP2P

\* ------------------------------------------------- get_HybridComm_obj
None_arg == 0

\* The call returns out / raises exc, and changes nothing else.
Answers(arg, comm, out, exc) ==
    /\ log' = Append(log, Request(arg, comm, out, exc))
    /\ UNCHANGED <<objs, hybrid_comm_registry, thread, attrs>>

\* get_HybridComm_obj(arg), one call from its first line to its return.
get_HybridComm_obj(arg) ==
    LET comm == IF arg = None_arg THEN COMM_WORLD ELSE arg
    IN  /\ oper = "wrap"
        /\ Len(log) < 2 + MaxWraps
        /\ IF arg # None_arg /\ ~isinstance_Intracomm(arg)
           THEN Answers(arg, comm, 0, "TypeError")
           ELSE IF ~(objs[comm].class \in {"MPI.Intracomm", "dummyMPI.Intracomm", "HybridComm"})
           THEN Answers(arg, comm, 0, "AttributeError")
           ELSE IF Get_size(comm) = 1
           THEN Answers(arg, comm, dummy_COMM_WORLD, "")
           ELSE IF in_keys(hex(id(comm)))
           THEN Answers(arg, comm, hybrid_comm_registry[hex(id(comm))], "")
           ELSE IF in_values(comm)
           THEN Answers(arg, comm, comm, "")
           ELSE /\ \E o \in Objs : objs[o].class = ""
                /\ \E a \in FreeAddrs :
                      objs' = [objs EXCEPT ![Fresh] = Object("HybridComm", 0, comm, a)]
                /\ hybrid_comm_registry' =
                      Registered(hybrid_comm_registry, hex(id(comm)), Fresh)
                /\ log' = Append(log, Request(arg, comm, Fresh, ""))
                /\ UNCHANGED <<thread, attrs>>
        /\ UNCHANGED commvars
        /\ UNCHANGED bufvars

\* The program makes a communicator of n ranks of the world, as
\* comm.Split(color, key) does.
Split(n) ==
    /\ oper \in {"wrap", "wrap_buffer"}
    /\ Cardinality({o \in Objs : objs[o].class \in {"MPI.Intracomm", "dead"}}) < 2 + MaxSplits
    /\ \E o \in Objs : objs[o].class = ""
    /\ \E a \in FreeAddrs :
          objs' = [objs EXCEPT ![Fresh] = Object("MPI.Intracomm", n, 0, a)]
    /\ UNCHANGED <<hybrid_comm_registry, log, thread, attrs>>
    /\ UNCHANGED commvars
    /\ UNCHANGED bufvars

\* The program drops its last reference to a communicator it made; the
\* object is deallocated unless something else still refers to it.
Dealloc(o) ==
    /\ oper = "wrap"
    /\ objs[o].live
    /\ objs[o].class = "MPI.Intracomm"
    /\ ~Referenced(o)
    /\ objs' = [objs EXCEPT ![o] = [Unborn EXCEPT !.class = "dead", !.addr = objs[o].addr]]
    /\ UNCHANGED <<hybrid_comm_registry, log, thread, attrs>>
    /\ UNCHANGED commvars
    /\ UNCHANGED bufvars

\* One process of a world of one rank or of two, after the import
\* (get_HybridComm_obj tells a size of 1 from any other, and no more).
InitReg ==
    /\ size \in 1 .. 2
    /\ Imported(size)
    /\ thread = <<>>
    /\ attrs = <<>>
    /\ NoBufferComm
    /\ NoProgram
    /\ oper = "wrap"
    /\ impl = "hybrid"
    /\ root = 0
    /\ obj = <<>>
    /\ pc = <<>>
    /\ use_buffer = <<>>
    /\ recvobj = <<>>
    /\ ret = <<>>
    /\ err = <<>>
    /\ shapes = <<>>
    /\ loop = <<>>
    /\ posts = <<>>
    /\ chan = <<>>
    /\ call = <<>>

NextReg ==
    \/ \E arg \in {None_arg} \cup {o \in Objs : objs[o].live} : get_HybridComm_obj(arg)
    \/ \E n \in 1 .. size : Split(n)
    \/ \E o \in Objs : Dealloc(o)

SpecReg == InitReg /\ [][NextReg]_vars

\* The requests made so far, and the last of them.
Requests == DOMAIN log

Last == log[Len(log)]

\* The communicator a request is for: the one a facade wraps if the
\* argument is a facade, else the argument (COMM_WORLD for None).
Underlying(q) ==
    IF objs[q.comm].class = "HybridComm" THEN objs[q.comm].comm ELSE q.comm

IsComm(o) == objs[o].class \in {"MPI.Intracomm", "dummyMPI.Intracomm", "HybridComm", "dead"}

\* C8: wrapping is idempotent per underlying communicator.  Of any two
\* requests for the same communicator (None standing for MPI.COMM_WORLD)
\* the later returns the identical object the earlier returned, and neither
\* raises; when that object is a facade, it is the facade of exactly that
\* communicator (for a communicator of one rank it is the fallback
\* communicator).
C8_WrapIsIdempotent ==
    oper = "wrap" =>
      \A i \in Requests, j \in Requests :
         (i < j /\ IsComm(log[i].comm) /\ Underlying(log[i]) = Underlying(log[j]))
         => /\ log[i].exc = "" /\ log[j].exc = ""
            /\ log[j].out = log[i].out
            /\ objs[log[i].out].live
            /\ \/ log[i].out = dummy_COMM_WORLD
               \/ /\ objs[log[i].out].class = "HybridComm"
                  /\ objs[log[i].out].comm = Underlying(log[i])

\* A communicator the program made was wrapped twice, and the world
\* communicator of two or more ranks was wrapped by a request without
\* argument: every time the facade of the first request came back.
C8_WrappedTwice ==
    /\ oper = "wrap"
    /\ \E i \in Requests, j \in Requests :
          /\ i < j
          /\ log[i].arg > HYBRID_COMM_WORLD /\ log[j].arg = log[i].arg
          /\ objs[log[i].arg].class = "MPI.Intracomm"
          /\ objs[log[i].out].class = "HybridComm"
          /\ log[j].out = log[i].out
    /\ \E k \in Requests :
          /\ log[k].arg = None_arg
          /\ log[k].out = log[2].out
          /\ objs[log[k].out].class = "HybridComm"

\* A step that is a request whose argument is an object of the classes.
RequestOf(classes) ==
    /\ Len(log') = Len(log) + 1
    /\ log'[Len(log')].arg # None_arg
    /\ objs[log'[Len(log')].arg].class \in classes

\* C9: passing a facade to get_HybridComm_obj returns that same facade,
\* makes no new facade and adds no registry entry.
C9_FacadeReturnsItself ==
    [][RequestOf({"HybridComm"})
        => /\ log'[Len(log')].exc = ""
           /\ log'[Len(log')].out = log'[Len(log')].arg
           /\ objs' = objs
           /\ hybrid_comm_registry' = hybrid_comm_registry]_vars

\* The facade of a communicator the program made was passed in and came
\* back.
C9_FacadePassedIn ==
    /\ oper = "wrap"
    /\ Len(log) > 2
    /\ Last.arg # None_arg
    /\ objs[Last.arg].class = "HybridComm"
    /\ objs[Last.arg].comm > HYBRID_COMM_WORLD
    /\ Last.out = Last.arg

\* C10: a request whose argument is neither None nor an intra-communicator
\* (real or dummy) raises TypeError, and the registry and every object are
\* as they were.
C10_NonCommunicatorRejected ==
    [][RequestOf({"int"})
        => /\ log'[Len(log')].exc = "TypeError"
           /\ log'[Len(log')].out = 0
           /\ objs' = objs
           /\ hybrid_comm_registry' = hybrid_comm_registry]_vars

\* A non-communicator was passed in after the program had a communicator
\* of its own wrapped, and TypeError was raised.
C10_TypeErrorRaised ==
    /\ oper = "wrap"
    /\ Len(log) > 3
    /\ Last.arg = no_comm
    /\ Last.exc = "TypeError"
    /\ Cardinality(DOMAIN hybrid_comm_registry) > 1

\* ------------------------------------- get_HybridComm_obj, several threads
\* The threads of one process that call get_HybridComm_obj at the same time.
\* The interpreter can switch threads between any two statements; the
\* function takes no lock.
MaxThreads == 2

Threads == 1 .. MaxThreads

\* The communicator the program made before it started the threads.
new_comm == 6

Calling(arg) ==
    [arg |-> arg, comm |-> IF arg = None_arg THEN COMM_WORLD ELSE arg,
     at |-> "lookup", hybrid_comm |-> 0, out |-> 0, exc |-> ""]

\* Thread t ends its call: it returns out or raises exc.
Ends(t, out, exc) ==
    /\ thread' = [thread EXCEPT ![t].at = IF exc = "" THEN "done" ELSE "raised",
                                ![t].out = out, ![t].exc = exc]
    /\ log' = Append(log, Request(thread[t].arg, thread[t].comm, out, exc))

\* The checks of get_HybridComm_obj up to the class definition: the type of
\* the argument, the size, the lookup by key and the lookup by value.
thread_lookup(t) ==
    LET comm == thread[t].comm
    IN  /\ oper = "threads"
        /\ thread[t].at = "lookup"
        /\ IF thread[t].arg # None_arg /\ ~isinstance_Intracomm(thread[t].arg)
           THEN Ends(t, 0, "TypeError")
           ELSE IF Get_size(comm) = 1
           THEN Ends(t, dummy_COMM_WORLD, "")
           ELSE IF in_keys(hex(id(comm)))
           THEN Ends(t, hybrid_comm_registry[hex(id(comm))], "")
           ELSE IF in_values(comm)
           THEN Ends(t, comm, "")
           ELSE /\ thread' = [thread EXCEPT ![t].at = "create"]
                /\ UNCHANGED log
        /\ UNCHANGED <<objs, hybrid_comm_registry, attrs>>
        /\ UNCHANGED commvars
        /\ UNCHANGED bufvars

\* hybrid_comm = HybridComm()
thread_create(t) ==
    /\ oper = "threads"
    /\ thread[t].at = "create"
    /\ \E o \in Objs : objs[o].class = ""
    /\ \E a \in FreeAddrs :
          objs' = [objs EXCEPT ![Fresh] = Object("HybridComm", 0, thread[t].comm, a)]
    /\ thread' = [thread EXCEPT ![t].at = "register", ![t].hybrid_comm = Fresh]
    /\ UNCHANGED <<hybrid_comm_registry, log, attrs>>
    /\ UNCHANGED commvars
    /\ UNCHANGED bufvars

\* hybrid_comm_registry[hex(id(comm))] = hybrid_comm; return(hybrid_comm)
thread_register(t) ==
    /\ oper = "threads"
    /\ thread[t].at = "register"
    /\ hybrid_comm_registry' =
          Registered(hybrid_comm_registry, hex(id(thread[t].comm)), thread[t].hybrid_comm)
    /\ Ends(t, thread[t].hybrid_comm, "")
    /\ UNCHANGED <<objs, attrs>>
    /\ UNCHANGED commvars
    /\ UNCHANGED bufvars

\* One process of a world of 2..MaxSize ranks after the import; the program
\* made a communicator of two or more ranks and each thread is about to
\* call get_HybridComm_obj with an argument of its own.
InitThreads ==
    /\ size \in 2 .. MaxSize
    /\ \E n \in 2 .. size :
          objs = [ImportedObjs(size) EXCEPT
                    ![new_comm] = Object("MPI.Intracomm", n, 0, new_comm)]
    /\ hybrid_comm_registry = Registered(<<>>, hex(COMM_WORLD), HYBRID_COMM_WORLD)
    /\ log = ImportedLog(size)
    /\ attrs = <<>>
    /\ thread \in [Threads -> {Calling(arg) :
                      arg \in {None_arg, COMM_WORLD, COMM_SELF, no_comm,
                               HYBRID_COMM_WORLD, new_comm}}]
    /\ NoBufferComm
    /\ NoProgram
    /\ oper = "threads"
    /\ impl = "hybrid"
    /\ root = 0
    /\ obj = <<>>
    /\ pc = <<>>
    /\ use_buffer = <<>>
    /\ recvobj = <<>>
    /\ ret = <<>>
    /\ err = <<>>
    /\ shapes = <<>>
    /\ loop = <<>>
    /\ posts = <<>>
    /\ chan = <<>>
    /\ call = <<>>

NextThreads ==
    \/ \E t \in Threads : thread_lookup(t)
    \/ \E t \in Threads : thread_create(t)
    \/ \E t \in Threads : thread_register(t)

SpecThreads == InitThreads /\ [][NextThreads]_vars

\* C11: when several threads request a facade for the same communicator at
\* the same time, all of them obtain the same facade, and two distinct
\* facades are never made for one communicator.
C11_ThreadsGetOneFacade ==
    oper = "threads" =>
      /\ \A t \in Threads, u \in Threads :
            (thread[t].at = "done" /\ thread[u].at = "done"
                /\ thread[t].comm = thread[u].comm)
            => thread[t].out = thread[u].out
      /\ \A f \in Objs, g \in Objs :
            (objs[f].class = "HybridComm" /\ objs[g].class = "HybridComm"
                /\ objs[f].comm = objs[g].comm)
            => f = g

\* C11, the failing case reached: two threads asked for the same
\* communicator, both have returned, and each got a facade of its own.
C11_TwoFacadesReturned ==
    /\ oper = "threads"
    /\ \E t \in Threads, u \in Threads :
          /\ thread[t].at = "done" /\ thread[u].at = "done"
          /\ thread[t].arg = new_comm /\ thread[u].arg = new_comm
          /\ thread[t].out # thread[u].out
          /\ objs[thread[t].out].class = "HybridComm"
          /\ objs[thread[u].out].class = "HybridComm"

\* ------------------------------------------- attributes of a HybridComm
\* A variant of overridden_attrs in which every name of the communicator is
\* overridden.
overridden_all ==
    {"__init__", "bcast", "gather", "recv", "scatter", "send", "rank", "name", "Get_size"}

\* overridden_attrs of get_HybridComm_obj.
overridden_attrs == {"__init__", "bcast", "gather", "recv", "scatter", "send"}

\* comm.__dir__(): the names of an MPI.Intracomm, here the overridden ones,
\* a read-only property (rank), a property with a setter (name) and a
\* method (Get_size).  The object has no __dict__: it gets no new names.
comm_dir == {"__init__", "bcast", "gather", "recv", "scatter", "send", "rank", "name", "Get_size"}

\* The names the program uses, and the values it writes.
AttrNames == {"rank", "name", "Get_size", "bcast", "overridden_attrs", "_rank", "pytest_attr"}

AttrValues == {"test", "other"}

\* A Python value, and the outcome of an access: a value or an exception.
Value(t, v) == [t |-> t, v |-> v]

Got(val) == [exc |-> "", val |-> val]

Failed(exc) == [exc |-> exc, val |-> Value("", "")]

\* getattr(comm, name), setattr(comm, name, value), delattr(comm, name) on
\* the wrapped communicator.
comm_getattr(n) ==
    IF n = "name" THEN Got(attrs.name)
    ELSE IF n = "rank" THEN Got(Value("int", "rank"))
    ELSE IF n \in comm_dir THEN Got(Value("method of comm", n))
    ELSE Failed("AttributeError")

comm_setattr(n, v) == IF n = "name" THEN Got(Value("none", "")) ELSE Failed("AttributeError")

comm_delattr(n) == IF n = "name" THEN Failed("NotImplementedError") ELSE Failed("AttributeError")

\* The test the three methods of HybridComm make.  (A variant that never
\* forwards follows it.)
never_forwards(n) == FALSE

forwards(n) == n \notin overridden_attrs /\ n \in comm_dir

\* super().__getattribute__(name), super().__setattr__(name, value) and
\* super().__delattr__(name) on the HybridComm: the property
\* overridden_attrs of the class, then the attributes of the instance,
\* then the methods of the class.
super_getattribute(n) ==
    IF n = "overridden_attrs" THEN Got(Value("tuple", "overridden_attrs"))
    ELSE IF n \in DOMAIN attrs.own THEN Got(attrs.own[n])
    ELSE IF n \in overridden_attrs THEN Got(Value("method of HybridComm", n))
    ELSE IF n \in comm_dir THEN Failed("MPI.Exception")
    ELSE Failed("AttributeError")

\* (A variant that stores nothing follows.)
setattr_refused(n, v) == Failed("AttributeError")

super_setattr(n, v) == IF n = "overridden_attrs" THEN Failed("AttributeError") ELSE Got(Value("none", ""))

super_delattr(n) ==
    IF n # "overridden_attrs" /\ n \in DOMAIN attrs.own
    THEN Got(Value("none", ""))
    ELSE Failed("AttributeError")

\* HybridComm.__getattribute__(name)
HybridComm_getattribute(n) ==
    IF forwards(n) THEN comm_getattr(n) ELSE super_getattribute(n)

\* An access, as attrs.last keeps it.
Access(op, n, v, out) == [op |-> op, name |-> n, value |-> v, out |-> out]

\* The program reads h_comm.name.
getattribute(n) ==
    /\ oper = "attr"
    /\ attrs' = [attrs EXCEPT !.last = Access("get", n, "", HybridComm_getattribute(n))]
    /\ UNCHANGED <<objs, hybrid_comm_registry, log, thread>>
    /\ UNCHANGED commvars
    /\ UNCHANGED bufvars

\* HybridComm.__setattr__(name, value)
setattr(n, v) ==
    /\ oper = "attr"
    /\ IF forwards(n)
       THEN attrs' = [attrs EXCEPT
                        !.name = IF comm_setattr(n, v).exc = "" THEN Value("str", v) ELSE @,
                        !.last = Access("set", n, v, comm_setattr(n, v))]
       ELSE attrs' = [attrs EXCEPT
                        !.own = IF super_setattr(n, v).exc = ""
                                THEN [k \in DOMAIN @ \cup {n} |->
                                        IF k = n THEN Value("str", v) ELSE @[k]]
                                ELSE @,
                        !.last = Access("set", n, v, super_setattr(n, v))]
    /\ UNCHANGED <<objs, hybrid_comm_registry, log, thread>>
    /\ UNCHANGED commvars
    /\ UNCHANGED bufvars

\* HybridComm.__delattr__(name)
delattr(n) ==
    /\ oper = "attr"
    /\ IF forwards(n)
       THEN attrs' = [attrs EXCEPT !.last = Access("del", n, "", comm_delattr(n))]
       ELSE attrs' = [attrs EXCEPT
                        !.own = IF super_delattr(n).exc = ""
                                THEN [k \in DOMAIN @ \ {n} |-> @[k]]
                                ELSE @,
                        !.last = Access("del", n, "", super_delattr(n))]
    /\ UNCHANGED <<objs, hybrid_comm_registry, log, thread>>
    /\ UNCHANGED commvars
    /\ UNCHANGED bufvars

\* The program sets an attribute of the communicator itself, as in
\* comm.name = value.
comm_set(n, v) ==
    /\ oper = "attr"
    /\ attrs' = [attrs EXCEPT
                   !.name = IF comm_setattr(n, v).exc = "" THEN Value("str", v) ELSE @,
                   !.last = Access("set on comm", n, v, comm_setattr(n, v))]
    /\ UNCHANGED <<objs, hybrid_comm_registry, log, thread>>
    /\ UNCHANGED commvars
    /\ UNCHANGED bufvars

\* HYBRID_COMM_WORLD of a world of two or more ranks, after HybridComm():
\* __init__ has set _rank and _size on the instance.
InitAttr ==
    /\ size \in 2 .. MaxSize
    /\ Imported(size)
    /\ thread = <<>>
    /\ attrs = [name |-> Value("str", "MPI_COMM_WORLD"),
                own |-> [k \in {"_rank", "_size"} |-> Value("int", k)],
                last |-> Access("", "", "", Got(Value("none", "")))]
    /\ NoBufferComm
    /\ NoProgram
    /\ oper = "attr"
    /\ impl = "hybrid"
    /\ root = 0
    /\ obj = <<>>
    /\ pc = <<>>
    /\ use_buffer = <<>>
    /\ recvobj = <<>>
    /\ ret = <<>>
    /\ err = <<>>
    /\ shapes = <<>>
    /\ loop = <<>>
    /\ posts = <<>>
    /\ chan = <<>>
    /\ call = <<>>

NextAttr ==
    \/ \E n \in AttrNames : getattribute(n)
    \/ \E n \in AttrNames, v \in AttrValues : setattr(n, v)
    \/ \E n \in AttrNames : delattr(n)
    \/ \E n \in AttrNames, v \in AttrValues : comm_set(n, v)

SpecAttr == InitAttr /\ [][NextAttr]_vars

\* C12: at every point, reading through the facade a name of the wrapped
\* communicator that is not intercepted yields what reading it on the
\* communicator yields, the reads the program made included; and every
\* name of the communicator is an attribute of the facade.
C12_ReadsAreForwarded ==
    oper = "attr" =>
      /\ \A n \in {"rank", "name", "Get_size"} :
            /\ HybridComm_getattribute(n) = comm_getattr(n)
            /\ (attrs.last.op = "get" /\ attrs.last.name = n)
                  => attrs.last.out = comm_getattr(n)
      /\ \A n \in {"rank", "name", "Get_size", "__init__", "bcast", "gather",
                   "recv", "scatter", "send"} :
            HybridComm_getattribute(n).exc = ""

\* The name of the communicator was changed, the facade got an attribute
\* of its own, and the program then read the new name through the facade.
C12_ReadAfterChange ==
    /\ oper = "attr"
    /\ attrs.last.op = "get" /\ attrs.last.name = "name"
    /\ attrs.last.out = Got(Value("str", "test"))
    /\ "pytest_attr" \in DOMAIN attrs.own

\* A step that is the access op by the program of the name n (with the
\* value v, "" for none).
Accessed(op, n, v) ==
    /\ attrs'.last # attrs.last
    /\ attrs'.last.op = op
    /\ attrs'.last.name = n
    /\ attrs'.last.value = v

\* C13: setting or deleting through the facade a name of the wrapped
\* communicator that is not intercepted is done on the communicator: the
\* outcome is the one of the communicator (AttributeError for rank), the
\* communicator has the new value if it took it, and the facade stores and
\* removes nothing of its own.
C13_WritesAreForwarded ==
    [][\A n \in {"rank", "name", "Get_size"} :
         /\ \A v \in AttrValues :
               Accessed("set", n, v)
               => /\ attrs'.last.out = comm_setattr(n, v)
                  /\ n = "rank" => attrs'.last.out.exc = "AttributeError"
                  /\ n = "name" => (comm_getattr(n))' = Got(Value("str", v))
                  /\ n # "name" => attrs'.name = attrs.name
                  /\ attrs'.own = attrs.own
         /\ Accessed("del", n, "")
            => /\ attrs'.last.out = comm_delattr(n)
               /\ n = "rank" => attrs'.last.out.exc = "AttributeError"
               /\ attrs'.name = attrs.name
               /\ attrs'.own = attrs.own]_vars

\* Setting rank through the facade raised AttributeError, after the name
\* of the communicator had been changed.
C13_RankRefused ==
    /\ oper = "attr"
    /\ attrs.last.op = "set" /\ attrs.last.name = "rank"
    /\ attrs.last.out.exc = "AttributeError"
    /\ attrs.name = Value("str", "test")

\* What C14 says of the name n: setting it through the facade stores the
\* value on the facade only, and deleting it through the facade when the
\* facade has it removes it.
StoredOnFacadeOnly(n) ==
    /\ \A v \in AttrValues :
          Accessed("set", n, v)
          => /\ attrs'.last.out.exc = ""
             /\ (HybridComm_getattribute(n))' = Got(Value("str", v))
             /\ (comm_getattr(n))'.exc = "AttributeError"
             /\ attrs'.name = attrs.name
    /\ (Accessed("del", n, "") /\ HybridComm_getattribute(n).exc = "")
       => /\ attrs'.last.out.exc = ""
          /\ (HybridComm_getattribute(n))'.exc = "AttributeError"

\* C14 as stated: for every name that the wrapped communicator does not
\* have, setting it through the facade stores the value on the facade
\* only, a following read returns it, and deleting it removes it.
C14_NewNameStoredOnFacade ==
    [][\A n \in {"overridden_attrs", "_rank", "pytest_attr"} :
         StoredOnFacadeOnly(n)]_vars

\* C14, amended: the same for every name that the wrapped communicator does
\* not have and that is not the read-only property overridden_attrs of the
\* facade's class (setting or deleting that one raises AttributeError).
C14_NewNameStoredUnlessProperty ==
    [][/\ \A n \in {"_rank", "pytest_attr"} : StoredOnFacadeOnly(n)
       /\ (attrs'.last # attrs.last /\ attrs'.last.op \in {"set", "del"}
             /\ attrs'.last.name = "overridden_attrs")
          => /\ attrs'.last.out.exc = "AttributeError"
             /\ attrs'.own = attrs.own]_vars

\* pytest_attr was set and then deleted through the facade.
C14_NewNameDeleted ==
    /\ oper = "attr"
    /\ attrs.last.op = "del" /\ attrs.last.name = "pytest_attr"
    /\ attrs.last.out.exc = ""


\* ------------------------- the facade against the generic collectives
\* What the specification calls buffer-eligible: a contiguous array whose
\* element type is in the element-type table.
Eligible(o) == o.kind = "ndarray" /\ o.contig /\ o.dtype \in SupportedDTypes

\* The payloads the call classifies: every rank's in gather, root's in
\* broadcast and scatter.
Classified == IF oper = "gather" THEN {obj[r] : r \in Ranks} ELSE {obj[root]}

\* The generic primitive of rank r is given more than it can carry.
Overflows(r) ==
    CASE oper = "bcast" -> r = root /\ too_large(obj[r])
      [] oper = "gather" -> too_large(obj[r])
      [] oper = "scatter" ->
           /\ r = root /\ obj[r].kind = "list" /\ Len(obj[r].data) = size
           /\ \E i \in 1 .. size : too_large(obj[r].data[i])

\* list(sendobj), the items comm.scatter hands out: the items of a list,
\* the rows of an array; nothing else is a sequence.
Items(o) ==
    IF o.kind = "list" THEN o.data
    ELSE IF o.kind = "ndarray" /\ o.shape # <<>>
    THEN [i \in 1 .. o.shape[1] |->
            Obj("ndarray", Tail(o.shape), o.dtype, TRUE,
                SubSeq(o.data, (i - 1) * Prod(Tail(o.shape)) + 1,
                       i * Prod(Tail(o.shape))))]
    ELSE <<>>

\* comm.bcast(obj, root), comm.gather(obj, root), comm.scatter(obj, root)
\* of the wrapped communicator, called with the arguments of the facade's
\* call: what rank r gets.  A scatter whose root does not pass one item per
\* rank raises on root, and the other ranks wait.
comm_generic(r) ==
    CASE oper = "bcast" -> [exc |-> "", val |-> obj[root]]
      [] oper = "gather" ->
           [exc |-> "",
            val |-> IF r = root THEN List([i \in 1 .. size |-> obj[i - 1]])
                    ELSE None]
      [] oper = "scatter" ->
           IF Len(Items(obj[root])) = size
           THEN [exc |-> "", val |-> Items(obj[root])[r + 1]]
           ELSE [exc |-> IF r = root THEN "ValueError" ELSE "waits",
                 val |-> None]

\* Rank r so far got from the facade what the generic collective gives it.
AsGeneric(r) ==
    /\ pc[r] = "done" => comm_generic(r) = [exc |-> "", val |-> ret[r]]
    /\ pc[r] = "raised" => comm_generic(r) = [exc |-> err[r], val |-> None]

\* C15: when a payload the call classifies is not buffer-eligible (and none
\* is too large for the generic path), the facade's broadcast, gather and
\* scatter return on every rank exactly what the wrapped communicator's
\* generic broadcast, gather and scatter return for the same arguments.
C15_IneligibleAsGeneric ==
    ((\E p \in Classified : ~Eligible(p)) /\ (\A r \in Ranks : ~Overflows(r)))
    => \A r \in Ranks : AsGeneric(r)

\* C15, the failing case reached: root passed an array that is not
\* contiguous, comm.bcast would have delivered it, and the facade raised.
C15_FacadeRaisedGenericReturns ==
    /\ oper = "bcast" /\ ~Eligible(obj[root])
    /\ pc[root] = "raised" /\ comm_generic(root).exc = ""

\* Whenever the classifier of the code sends the call down the generic
\* path, the facade gives every rank what the generic collective gives it.
GenericPathAsGeneric ==
    ((\E p \in Classified : ~is_buffer_obj(p)) /\ (\A r \in Ranks : ~Overflows(r)))
    => \A r \in Ranks : AsGeneric(r)


\* C16: a rank whose generic primitive is given a payload too large for it
\* does not return from the facade's call, and the error the call raises is
\* InputError, never the error of the primitive.
C16_TooLargeRaisesInputError ==
    \A r \in Ranks :
       Overflows(r) => /\ pc[r] # "done"
                       /\ pc[r] = "raised" => err[r] = "InputError"

\* C16, the failing case reached: the facade's call has ended with the
\* error of the primitive.
C16_RawErrorReachedCaller ==
    \E r \in Ranks :
       Overflows(r) /\ pc[r] = "raised" /\ err[r] \in TransportErrors


\* C17: the classification root made of its payload is true if and only if
\* the payload is a contiguous array whose element type is one of the
\* element-type table, and false for every other payload.
C17_ClassifierIsEligibility ==
    pc[root] # "handshake" => (use_buffer[root] <=> Eligible(obj[root]))

\* C17, the failing case reached: root classified as eligible an array that
\* is not contiguous, or one of an element type outside the table.
C17_IneligibleArrayClassifiedEligible ==
    /\ pc[root] # "handshake" /\ use_buffer[root]
    /\ obj[root].kind = "ndarray"
    /\ ~obj[root].contig \/ obj[root].dtype \notin SupportedDTypes

\* What the classifier does decide: whether the payload is an array.
ClassifierIsInstanceCheck ==
    pc[root] # "handshake" => (use_buffer[root] <=> obj[root].kind = "ndarray")


\* A step that is a request for a communicator of a single rank (MPI or
\* dummy; MPI.COMM_WORLD when the argument is None).
RequestOfSingleRank ==
    /\ Len(log') = Len(log) + 1
    /\ objs[log'[Len(log')].comm].class \in {"MPI.Intracomm", "dummyMPI.Intracomm"}
    /\ objs[log'[Len(log')].comm].size = 1

\* C18: a request for an intra-communicator of a single rank returns the
\* fallback communicator dummyMPI.COMM_WORLD, makes no facade and adds no
\* registry entry; and every facade in the registry wraps a communicator of
\* two or more ranks.
C18_SingleRankGetsFallback ==
    /\ [][RequestOfSingleRank
            => /\ log'[Len(log')].exc = ""
               /\ log'[Len(log')].out = dummy_COMM_WORLD
               /\ objs' = objs
               /\ hybrid_comm_registry' = hybrid_comm_registry]_vars
    /\ [](oper = "wrap" =>
            \A k \in DOMAIN hybrid_comm_registry :
               /\ objs[hybrid_comm_registry[k]].class = "HybridComm"
               /\ objs[objs[hybrid_comm_registry[k]].comm].live
               /\ objs[objs[hybrid_comm_registry[k]].comm].size >= 2)

\* A communicator of a single rank that the program made was passed in
\* while the registry held a facade, and the fallback communicator came
\* back.
C18_SingleRankSplitWrapped ==
    /\ oper = "wrap"
    /\ Len(log) > 2
    /\ Last.arg > HYBRID_COMM_WORLD
    /\ objs[Last.arg].class = "MPI.Intracomm" /\ objs[Last.arg].size = 1
    /\ Last.out = dummy_COMM_WORLD
    /\ DOMAIN hybrid_comm_registry # {}


\* ------------------------------------ the top-level get_BufferComm_obj
\* BUFFER_COMM_WORLD = get_BufferComm_obj(), made by the import.
BUFFER_COMM_WORLD == 5

\* The names MPI gives a communicator that Split made: none with some MPI
\* libraries, one made of the context ids with others; the program can set
\* any name with Set_name.
SplitNames == {"", "MPI COMMUNICATOR 3 SPLIT FROM 0"}

\* comm.name; a BufferComm forwards it to the communicator it wraps.
Get_name(o) ==
    IF objs[o].class = "BufferComm" THEN comm_name[objs[o].comm] ELSE comm_name[o]

\* get_BufferComm_obj(arg), one call from its first line to its return.
get_BufferComm_obj(arg) ==
    LET comm == IF arg = None_arg THEN COMM_WORLD ELSE arg
    IN  /\ oper = "wrap_buffer"
        /\ Len(log) < 1 + MaxWraps
        /\ IF arg # None_arg /\ ~isinstance_Intracomm(arg)
           THEN /\ log' = Append(log, Request(arg, comm, 0, "TypeError"))
                /\ UNCHANGED <<objs, buffer_comm_registry>>
           ELSE IF Get_name(comm) \in DOMAIN buffer_comm_registry
           THEN /\ log' = Append(log, Request(arg, comm,
                                              buffer_comm_registry[Get_name(comm)], ""))
                /\ UNCHANGED <<objs, buffer_comm_registry>>
           ELSE /\ \E o \in Objs : objs[o].class = ""
                /\ \E a \in FreeAddrs :
                      objs' = [objs EXCEPT ![Fresh] = Object("BufferComm", 0, comm, a)]
                /\ buffer_comm_registry' =
                      Registered(buffer_comm_registry, Get_name(comm), Fresh)
                /\ log' = Append(log, Request(arg, comm, Fresh, ""))
        /\ UNCHANGED <<hybrid_comm_registry, thread, attrs, comm_name, todo, returned>>
        /\ UNCHANGED commvars

\* One process after the import of mpi4pyd: BUFFER_COMM_WORLD is registered
\* under the name of MPI.COMM_WORLD.  (HYBRID_COMM_WORLD plays no part and
\* is left out.)
InitBuf ==
    /\ size \in 2 .. MaxSize
    /\ objs = [ImportedObjs(size) EXCEPT
                 ![BUFFER_COMM_WORLD] = Object("BufferComm", 0, COMM_WORLD, BUFFER_COMM_WORLD)]
    /\ \E nm \in [Objs -> SplitNames] :
          comm_name = [o \in Objs |->
                         IF o = COMM_WORLD THEN "MPI_COMM_WORLD"
                         ELSE IF o = COMM_SELF THEN "MPI_COMM_SELF"
                         ELSE IF o <= BUFFER_COMM_WORLD THEN ""
                         ELSE nm[o]]
    /\ buffer_comm_registry = Registered(<<>>, "MPI_COMM_WORLD", BUFFER_COMM_WORLD)
    /\ log = <<Request(None_arg, COMM_WORLD, BUFFER_COMM_WORLD, "")>>
    /\ hybrid_comm_registry = <<>>
    /\ thread = <<>>
    /\ attrs = <<>>
    /\ oper = "wrap_buffer"
    /\ impl = "buffer"
    /\ root = 0
    /\ obj = <<>>
    /\ pc = <<>>
    /\ use_buffer = <<>>
    /\ recvobj = <<>>
    /\ ret = <<>>
    /\ err = <<>>
    /\ shapes = <<>>
    /\ loop = <<>>
    /\ posts = <<>>
    /\ chan = <<>>
    /\ call = <<>>
    /\ NoProgram

\* The program wraps None, a communicator of MPI, a BufferComm or an object
\* that is no communicator, and makes communicators.
NextBuf ==
    \/ \E arg \in {None_arg} \cup {o \in Objs \ {dummy_COMM_WORLD} : objs[o].live} :
          get_BufferComm_obj(arg)
    \/ \E n \in 1 .. size : Split(n)

SpecBuf == InitBuf /\ [][NextBuf]_vars

\* The request was for a communicator of MPI and returned a BufferComm that
\* is that communicator with its methods overridden: the BufferComm
\* forwards to, and communicates on, the communicator passed.
WrapsProvided(q) ==
    (q.arg # None_arg /\ objs[q.arg].class = "MPI.Intracomm")
    => /\ q.exc = ""
       /\ objs[q.out].class = "BufferComm"
       /\ objs[q.out].comm = q.arg

\* C19: for every intra-communicator passed to the top-level
\* get_BufferComm_obj, whatever was wrapped before, the BufferComm returned
\* is the communicator passed with its lowercase methods overridden.
C19_BufferCommWrapsProvided ==
    oper = "wrap_buffer" => \A i \in DOMAIN log : WrapsProvided(log[i])

\* C19, the failing case reached: a communicator that was not wrapped before
\* was passed, and the BufferComm of another communicator came back.
C19_BufferCommOfAnotherComm ==
    /\ oper = "wrap_buffer"
    /\ Last.arg # None_arg
    /\ objs[Last.arg].class = "MPI.Intracomm"
    /\ \A i \in 1 .. (Len(log) - 1) : log[i].comm # Last.arg
    /\ objs[Last.out].class = "BufferComm"
    /\ objs[Last.out].comm # Last.arg

\* When no two communicators have the same name, every request returns the
\* BufferComm of the communicator passed.
BufferCommWithDistinctNames ==
    (oper = "wrap_buffer"
        /\ \A o \in Objs, q \in Objs :
              (o # q /\ objs[o].class = "MPI.Intracomm" /\ objs[q].class = "MPI.Intracomm")
              => comm_name[o] # comm_name[q])
    => \A i \in DOMAIN log : WrapsProvided(log[i])


\* Rank r has handed nothing but its classification to the transport.
OnlyHandshake(r) ==
    /\ \A d \in Ranks : chan[<<r, d>>] = <<>>
    /\ \A k \in 1 .. Len(posts[r]) :
          posts[r][k].op = "allreduce" \/ (posts[r][k].op = "gather" /\ posts[r][k].val = obj[r])

\* C20: in gather every rank gets the same decision, the logical AND of the
\* classifications of all ranks; when the payload of any rank is classified
\* not eligible every rank takes the generic path (it hands the transport
\* its payload for comm.gather and nothing else); and a rank that has no
\* decision yet has handed the transport no shape and no data.
C20_GatherDecisionIsConjunction ==
    oper = "gather" =>
      \A r \in Ranks :
         IF pc[r] = "handshake"
         THEN posts[r] = <<>> /\ \A d \in Ranks : chan[<<r, d>>] = <<>>
         ELSE /\ use_buffer[r] <=> \A q \in Ranks : is_buffer_obj(obj[q])
              /\ (\E q \in Ranks : ~is_buffer_obj(obj[q]))
                 => pc[r] \in {"generic", "done", "raised"} /\ OnlyHandshake(r)

\* Some ranks passed an array and some did not, and every rank has come
\* back from the generic gather.
C20_MixedPayloadsGatheredGeneric ==
    /\ oper = "gather"
    /\ \E q \in Ranks : is_buffer_obj(obj[q])
    /\ \E q \in Ranks : ~is_buffer_obj(obj[q])
    /\ \A r \in Ranks : pc[r] = "done" /\ ~use_buffer[r]


InitP2PMany ==
    /\ InitFresh
    /\ NoProgram
    /\ size > 2
    /\ oper = "p2p"
    /\ impl = "hybrid"
    /\ root = 0
    /\ \E t \in [1 .. 2 -> 0 .. MaxTag], anys \in BOOLEAN, anyt \in BOOLEAN,
          p \in [1 .. 2 -> {Arr(<<MaxExtent>>, "float64", TRUE, 0), List(<<0>>)}] :
          /\ pc = [r \in 0 .. (size - 1) |-> IF r <= 2 THEN "handshake" ELSE "done"]
          /\ obj = [r \in 0 .. (size - 1) |->
                      IF r \in 1 .. 2 THEN Seeded(p[r], r) ELSE None]
          /\ call = [r \in 0 .. (size - 1) |->
                       IF r \in 1 .. 2 THEN [meth |-> "send", peer |-> 0, tag |-> t[r]]
                       ELSE IF r = 0
                       THEN [meth |-> "recv",
                             peer |-> IF anys THEN ANY_SOURCE ELSE 1,
                             tag |-> IF anyt THEN ANY_TAG ELSE t[1]]
                       ELSE NoCall]

SpecP2PMany == InitP2PMany /\ [][NextP2P]_vars

\* ------------------------------------------- several calls in a row
\* The most calls one rank makes in a row.
MaxCalls == 2

\* Rank s makes k send calls to d, all with tag t; d makes k recv calls that
\* name the source s and the tag t.  The payloads are contiguous arrays of a
\* supported element type and objects that are no arrays.
InitP2PSeq ==
    /\ InitFresh
    /\ oper = "p2p"
    /\ impl = "hybrid"
    /\ root = 0
    /\ \E s \in 0 .. (size - 1), d \in 0 .. (size - 1), t \in 0 .. MaxTag, k \in 1 .. MaxCalls :
         \E p \in [1 .. k -> {Arr(<<MaxExtent>>, "float64", TRUE, 0),
                             Arr(<<1, MaxExtent>>, "int32", TRUE, 0),
                             List(<<0>>), None}] :
          /\ s # d
          /\ todo = [r \in 0 .. (size - 1) |->
                       IF r = s THEN [i \in 1 .. k |-> Seeded(p[i], i)]
                       ELSE IF r = d THEN [i \in 1 .. k |-> None]
                       ELSE <<>>]
          /\ returned = [r \in 0 .. (size - 1) |-> <<>>]
          /\ pc = [r \in 0 .. (size - 1) |->
                     IF r \in {s, d} THEN "handshake" ELSE "done"]
          /\ obj = [r \in 0 .. (size - 1) |-> IF r = s THEN Seeded(p[1], 1) ELSE None]
          /\ call = [r \in 0 .. (size - 1) |->
                       IF r = s THEN [meth |-> "send", peer |-> d, tag |-> t]
                       ELSE IF r = d THEN [meth |-> "recv", peer |-> s, tag |-> t]
                       ELSE NoCall]

\* The call of rank r returned and the rank makes its next call, with the
\* same dest or source and the same tag.
next_call(r) ==
    /\ oper = "p2p"
    /\ pc[r] = "done"
    /\ Len(returned[r]) + 1 < Len(todo[r])
    /\ returned' = [returned EXCEPT ![r] = Append(@, ret[r])]
    /\ obj' = [obj EXCEPT ![r] = todo[r][Len(returned[r]) + 2]]
    /\ pc' = [pc EXCEPT ![r] = "handshake"]
    /\ use_buffer' = [use_buffer EXCEPT ![r] = FALSE]
    /\ recvobj' = [recvobj EXCEPT ![r] = None]
    /\ ret' = [ret EXCEPT ![r] = None]
    /\ UNCHANGED <<objs, hybrid_comm_registry, log, thread, attrs, buffer_comm_registry, comm_name, todo>>
    /\ UNCHANGED <<oper, impl, size, root, err, shapes, loop, posts, chan, call>>

NextP2PSeq ==
    \/ \E r \in Ranks : use_buffer_meth_send(r)
    \/ \E r \in Ranks : send_meta(r)
    \/ \E r \in Ranks : send_Send(r)
    \/ \E r \in Ranks : send_generic(r)
    \/ \E r \in Ranks : use_buffer_meth_recv(r)
    \/ \E r \in Ranks : recv_meta(r)
    \/ \E r \in Ranks : recv_Recv(r)
    \/ \E r \in Ranks : recv_generic(r)
    \/ \E r \in Ranks : next_call(r)

SpecP2PSeq == InitP2PSeq /\ [][NextP2PSeq]_vars

\* The messages the send call of rank s has handed to the transport so
\* far, in the order the claims give: the flag, then for an array the shape
\* and element type and then the array, else the object.
SentSoFar(s) ==
    LET flag == Msg(call[s].tag, Flag(is_buffer_obj(obj[s])), FALSE)
        meta == Msg(call[s].tag, Meta(obj[s].shape, obj[s].dtype), FALSE)
    IN  CASE pc[s] = "handshake" -> <<>>
          [] pc[s] \in {"meta", "generic"} -> <<flag>>
          [] pc[s] \in {"data", "raised"} -> <<flag, meta>>
          [] pc[s] = "done" ->
               IF is_buffer_obj(obj[s])
               THEN <<flag, meta, Msg(call[s].tag, obj[s], TRUE)>>
               ELSE <<flag, Msg(call[s].tag, obj[s], FALSE)>>

\* How many messages of the send call of rank s were received.
Consumed(s) == Len(SentSoFar(s)) - Len(chan[<<s, call[s].peer>>])

SendingRanks == {s \in Ranks : call[s].meth = "send"}

\* C22: a send hands over the flag first, then (for an eligible payload
\* only) the shape and element type, then the payload, all to dest with the
\* tag of the call; what is still under way is the rest of that sequence, so
\* the flag of a send is received before anything else of it; and a recv
\* that has not received a flag has received nothing, while one that has
\* decided has received a flag.
C22_FlagThenMetadataThenPayload ==
    oper = "p2p" =>
      /\ \A s \in SendingRanks :
            /\ Consumed(s) \in 0 .. Len(SentSoFar(s))
            /\ chan[<<s, call[s].peer>>] =
                  SubSeq(SentSoFar(s), Consumed(s) + 1, Len(SentSoFar(s)))
            /\ \A d \in Ranks \ {call[s].peer} : chan[<<s, d>>] = <<>>
      /\ \A d \in Ranks :
            call[d].meth = "recv" =>
               /\ pc[d] = "handshake" => \A s \in SendingRanks : Consumed(s) = 0
               /\ pc[d] # "handshake" => \E s \in SendingRanks : Consumed(s) > 0

\* The recv has taken the flag and the shape and element type of a send,
\* and the array is under way behind them.
C22_ArrayUnderWay ==
    /\ oper = "p2p"
    /\ \E s \in SendingRanks :
          /\ pc[s] = "done" /\ is_buffer_obj(obj[s])
          /\ Consumed(s) = 2
          /\ pc[call[s].peer] = "data"
          /\ chan[<<s, call[s].peer>>] = <<Msg(call[s].tag, obj[s], TRUE)>>

\* C23: whatever one recv call receives comes from a single send call, also
\* when the source or the tag is left at the wildcard and several ranks
\* send to the receiver at the same time.
C23_OneRecvTakesOneSend ==
    oper = "p2p" => Cardinality({s \in SendingRanks : Consumed(s) > 0}) <= 1

\* C23, the failing case reached: the recv took the flag of one send and
\* then a message of the send of another rank.
C23_RecvMixedTwoSends ==
    /\ oper = "p2p"
    /\ Cardinality({s \in SendingRanks : Consumed(s) > 0}) = 2

\* A recv that names its source receives from that rank only.
RecvFromNamedSourceTakesOneSend ==
    (oper = "p2p" /\ \A d \in Ranks : call[d].meth = "recv" => call[d].peer # ANY_SOURCE)
    => Cardinality({s \in SendingRanks : Consumed(s) > 0}) <= 1


\* ------------------------------------------------- collectives return
\* A rank that can take a step of its call takes it, and a message or a
\* collective call that can complete does: the scheduler and the transport
\* are fair.
SpecBcastFair == SpecBcast /\ WF_vars(NextBcast)

SpecGatherFair == SpecGather /\ WF_vars(NextGather)

\* Every rank makes the call with arguments that are valid: a broadcast, a
\* gather of arrays of one shape and element type, or a gather of objects
\* that are no arrays; no payload is too large for the generic path.
ValidCollective ==
    /\ \A r \in Ranks : ~Overflows(r)
    /\ \/ oper = "bcast"
       \/ /\ oper = "gather" /\ AllArrays /\ DifferingAxes = {}
          /\ \A r \in Ranks : obj[r].dtype = obj[0].dtype
       \/ oper = "gather" /\ \A r \in Ranks : obj[r].kind # "ndarray"

\* Any two ranks made the same collective calls on comm, in the same order,
\* as far as both have come.
SameCollectives ==
    \A r \in Ranks, q \in Ranks :
       \A k \in 1 .. Len(posts[r]) :
          k <= Len(posts[q]) => posts[q][k].op = posts[r][k].op

\* C24: when every rank makes the same valid collective call, all ranks
\* issue the same sequence of collective primitives, and under a fair
\* transport the call returns on every rank.
C24_ValidCollectiveReturns ==
    ValidCollective => ([]SameCollectives /\ <>(\A r \in Ranks : pc[r] = "done"))

\* C24, the failing case reached: root has raised in a valid broadcast, and
\* every other rank waits in a collective call that root never makes.
C24_RanksWaitForRaisedRoot ==
    /\ ValidCollective
    /\ pc[root] = "raised"
    /\ \A r \in Ranks \ {root} : pc[r] \notin {"done", "raised"}
    /\ ~ENABLED NextBcast

\* With contiguous arrays of an element type of dtype_dict, every valid
\* collective returns on every rank.
ValidContiguousCollectiveReturns ==
    (ValidCollective
        /\ \A r \in Ranks : obj[r].kind = "ndarray" => Eligible(obj[r]))
    => ([]SameCollectives /\ <>(\A r \in Ranks : pc[r] = "done"))


\* C25: every payload the handshake admits to the buffer path has an element
\* type of the element-type table, and no rank fails the lookup of the
\* element type after the decision.
C25_AdmittedElementTypeIsInTable ==
    \A r \in Ranks :
       (pc[r] # "handshake" /\ use_buffer[r])
       => /\ \A p \in Classified : p.dtype \in DOMAIN dtype_dict
          /\ err[r] # "KeyError"

\* C25, the failing case reached: root failed the lookup of the element type
\* on its own, and another rank went into comm.Gatherv and returned.
C25_LookupFailedOthersTransferred ==
    /\ oper = "gather"
    /\ pc[root] = "raised" /\ err[root] = "KeyError"
    /\ \E r \in Ranks : r # root /\ pc[r] = "done" /\ use_buffer[r]


\* Root's payload is an array whose leading dimension the group size does
\* not divide.
UnevenScatter ==
    /\ oper = "scatter" /\ obj[root].kind = "ndarray"
    /\ obj[root].shape # <<>> /\ obj[root].shape[1] % size # 0

\* C26: when the group size does not divide the leading dimension, root
\* raises the shape-division error before it broadcasts the slice metadata
\* and before any buffer scatter: root made no collective call but the
\* handshake, and no rank received metadata or a part of the array.
C26_UnevenScatterSendsNothing ==
    UnevenScatter =>
      /\ pc[root] = "raised" => err[root] = "ShapeError"
      /\ pc[root] \notin {"Scatter", "done"}
      /\ \A k \in 1 .. Len(posts[root]) :
            posts[root][k].op = "bcast" /\ posts[root][k].val.kind = "bool"
      /\ \A r \in Ranks : recvobj[r] = None /\ pc[r] \notin {"Scatter", "done"}

\* Root has raised the shape-division error after the handshake.
C26_RootRaisedShapeError ==
    /\ UnevenScatter
    /\ pc[root] = "raised" /\ err[root] = "ShapeError"
    /\ Len(posts[root]) = 1

\* C27: in a scatter in which root fails with the uneven-distribution
\* error, no other rank enters the buffer path: none comes to the step that
\* waits for the slice metadata or for the data.
C27_NoRankEntersBufferPath ==
    (oper = "scatter" /\ pc[root] = "raised" /\ err[root] = "ShapeError")
    => \A r \in Ranks \ {root} : pc[r] \notin {"meta", "Scatter"}

\* C27, the failing case reached: root has raised the uneven-distribution
\* error and every other rank waits for the slice metadata.
C27_OthersWaitForMetadata ==
    /\ oper = "scatter"
    /\ pc[root] = "raised" /\ err[root] = "ShapeError"
    /\ \A r \in Ranks \ {root} : pc[r] = "meta" /\ use_buffer[r]


\* The collective calls of the buffer path of bcast, in the order of the
\* code: the handshake, the shape and element type, the array.
BcastBufferSteps == <<"bcast", "bcast", "Bcast">>

\* What root hands to each of these calls.
BcastBufferKinds == <<"bool", "meta", "ndarray">>

\* The number of these calls rank r has behind it at its position.
BcastStepsMade(r) ==
    CASE pc[r] = "meta" -> 1
      [] pc[r] = "data" -> 2
      [] pc[r] = "done" -> 3
      [] OTHER -> Len(posts[r])

\* C28: on the buffer path of bcast every rank makes its calls in the order
\* handshake, shape and element type (generic broadcast), array (buffer
\* broadcast); a rank other than root that comes to the buffer broadcast
\* holds a receive array of exactly the shape and element type of root's.
C28_HandshakeMetadataArray ==
    oper = "bcast" =>
      \A r \in Ranks : (pc[r] # "handshake" /\ use_buffer[r]) =>
        /\ Len(posts[r]) = BcastStepsMade(r)
        /\ Len(posts[r]) \in 1 .. 3
        /\ \A k \in 1 .. Len(posts[r]) :
              /\ posts[r][k].op = BcastBufferSteps[k]
              /\ r = root => posts[r][k].val.kind = BcastBufferKinds[k]
        /\ (r # root /\ pc[r] = "data") =>
              /\ recvobj[r].kind = "ndarray"
              /\ recvobj[r].shape = obj[root].shape
              /\ recvobj[r].dtype = obj[root].dtype

\* A rank other than root is about to start the buffer broadcast for an
\* array of two axes of root.
C28_ReceiveArrayAllocated ==
    /\ oper = "bcast"
    /\ \E r \in Ranks \ {root} :
          /\ pc[r] = "data" /\ use_buffer[r]
          /\ Len(obj[root].shape) = 2
          /\ recvobj[r].shape = obj[root].shape
    /\ pc[root] = "done"


\* Root of BufferComm.gather holds the table of shapes, and the table has
\* at most one differing axis.
TablePassedCheck ==
    /\ oper = "gather" /\ impl = "buffer"
    /\ use_buffer[root] /\ shapes[root] # <<>>
    /\ sum_diff_size(shapes[root]) <= 1

\* The positions of the receive buffer that belong to the segment of the
\* i-th rank: [offset[i], offset[i] + count[i]), positions counted from 1.
Segment(sh, i) == {j \in 1 .. buff_size(sh) :
                      j > disps(sh)[i] /\ j <= disps(sh)[i] + counts(sh)[i]}

C30_BufferShapeDerived ==
    TablePassedCheck =>
      LET sh == shapes[root]
      IN  /\ sum_diff_size(sh) = 0 => diff_axis(sh) = 1
          /\ sum_diff_size(sh) = 1 =>
                \A a \in 1 .. Len(sh[1]) : diff_size(sh)[a] <=> a = diff_axis(sh)
          /\ ~index_out_of_bounds(sh)
          /\ err[root] # "IndexError"

\* Root raised IndexError for arrays of no axis while every other rank has
\* made its Gatherv call.
C30_NoAxisRaisedIndexError ==
    /\ TablePassedCheck
    /\ \A r \in Ranks : obj[r].shape = <<>>
    /\ pc[root] = "raised" /\ err[root] = "IndexError"
    /\ \A r \in Ranks \ {root} : pc[r] = "done"

\* With shapes of at least one axis the shape of the buffer is derived.
BufferShapeDerivedWithAxes ==
    (TablePassedCheck /\ shapes[root][1] # <<>>) =>
        ~index_out_of_bounds(shapes[root]) /\ err[root] # "IndexError"


\* The ranks that contribute an array of no element.
ZeroSizeRanks == {r \in Ranks : obj[r].kind = "ndarray" /\ Prod(obj[r].shape) = 0}

\* A gather of BufferComm (either module) in which every rank passed an
\* array, some of no element, and the shapes differ along one axis at most.
GatherWithZeroSize ==
    /\ oper = "gather" /\ impl \in {"buffer", "toplevel"}
    /\ AllArrays /\ ZeroSizeRanks # {}
    /\ Cardinality(DifferingAxes) <= 1

\* The sum of the element counts of the ranks before i that have elements.
OffsetWithoutZeroSize(i) ==
    SumTo([k \in 1 .. size |-> IF k - 1 \in ZeroSizeRanks THEN 0 ELSE Len(obj[k - 1].data)],
          i - 1)

TopLevelGatheredZeroSize ==
    /\ GatherWithZeroSize /\ impl = "toplevel"
    /\ pc[root] = "done"
    /\ ZeroSizeRanks = Ranks


\* The shape of one rank's slice: root's shape with the leading dimension
\* divided by the group size.
SliceShape == [obj[root].shape EXCEPT ![1] = @ \div size]

\* The slice without its leading dimension when that one is a singleton.
LeadingSqueezed == IF SliceShape[1] = 1 THEN Tail(SliceShape) ELSE SliceShape

\* Rank r returned from the buffer path of scatter.
ScatteredAsBuffer(r) ==
    /\ oper = "scatter" /\ use_buffer[r] /\ pc[r] = "done"
    /\ obj[root].shape # <<>>

\* C32: on the buffer path of scatter each rank returns its slice with the
\* leading dimension removed when it is a singleton, and with every other
\* dimension of the slice kept as it is.
C32_OnlyLeadingSingletonRemoved ==
    \A r \in Ranks : ScatteredAsBuffer(r) => ret[r].shape = LeadingSqueezed

\* A rank returned an array of one dimension for a slice of two rows of one
\* element.
C32_OtherSingletonRemoved ==
    \E r \in Ranks :
        /\ ScatteredAsBuffer(r)
        /\ SliceShape = <<2, 1>>
        /\ ret[r].shape = <<2>>

\* Where no dimension of the slice after the leading one is a singleton, the
\* returned shape is the slice with a singleton leading dimension removed.
LeadingSingletonRemoved ==
    \A r \in Ranks :
        (ScatteredAsBuffer(r) /\ \A a \in 2 .. Len(SliceShape) : SliceShape[a] # 1)
        => ret[r].shape = LeadingSqueezed


\* The element type with which root receives the data of rank i, once root
\* has set up its receive arrays (HybridComm) or returned (BufferComm).
ReceivedAs(i) ==
    IF impl = "hybrid" THEN recvobj[root].data[i + 1].dtype
    ELSE ret[root].data[i + 1].dtype

\* Root of a gather on the buffer path has its receive arrays.
RootReceives ==
    /\ oper = "gather" /\ use_buffer[root]
    /\ \/ impl = "hybrid" /\ recvobj[root].kind = "list"
       \/ impl = "buffer" /\ pc[root] = "done"

\* C33: on the buffer path of gather root receives the data of every rank
\* with the element type of that rank's array, also when the ranks hold
\* arrays of different supported element types.
C33_ReceivedWithSendersType ==
    RootReceives => \A i \in Ranks : ReceivedAs(i) = obj[i].dtype

\* Root of HybridComm.gather has allocated, for a rank holding a contiguous
\* array of another supported element type, an array of root's type.
C33_ReceivedWithRootsType ==
    /\ RootReceives /\ impl = "hybrid"
    /\ \E i \in Ranks :
          /\ BufferOk(obj[i]) /\ BufferOk(obj[root])
          /\ obj[i].dtype \in DOMAIN dtype_dict
          /\ obj[root].dtype \in DOMAIN dtype_dict
          /\ obj[i].dtype # obj[root].dtype
          /\ ReceivedAs(i) = obj[root].dtype

\* Where every rank holds the element type of root, root receives every
\* rank's data with that rank's type.
ReceivedWithCommonType ==
    (RootReceives /\ \A i \in Ranks : obj[i].dtype = obj[root].dtype)
    => \A i \in Ranks : ReceivedAs(i) = obj[i].dtype


\* Rank d makes recv calls in a row, each naming the rank that sends to it.
ReceivesInARow(d) ==
    /\ oper = "p2p" /\ d \in DOMAIN todo
    /\ call[d].meth = "recv" /\ todo[d] # <<>>

\* Rank d has returned from the last of its calls.
FinishedCalls(d) == pc[d] = "done" /\ Len(returned[d]) + 1 = Len(todo[d])

Sending == Ranks \ {root}

\* Root has received the array of rank r: nothing of r is pending and r has
\* made its send.
RootHasArrayOf(r) == chan[<<r, root>>] = <<>> /\ pc[r] \in {"Barrier", "done"}

\* At every moment of the buffer path of HybridComm.gather: a rank has at
\* most one message pending at root, a buffer message tagged key + r; and
\* once any rank has returned, root has received the array of every other
\* rank.
TransfersBeforeReturn ==
    (oper = "gather" /\ impl = "hybrid") =>
      /\ \A r \in Sending :
            /\ Len(chan[<<r, root>>]) <= 1
            /\ \A k \in 1 .. Len(chan[<<r, root>>]) :
                  chan[<<r, root>>][k].tag = key + r /\ chan[<<r, root>>][k].raw
            /\ pc[r] \in {"handshake", "shapes", "Send"} => chan[<<r, root>>] = <<>>
      /\ (\E r \in Ranks : use_buffer[r] /\ pc[r] = "done") =>
            /\ \A q \in Sending : RootHasArrayOf(q)
            /\ \A q \in Ranks : pc[q] = "done"
            /\ Len(recvobj[root].data) = size
            /\ \A q \in Sending :
                  obj[q].dtype = obj[root].dtype
                  => ret[root].data[q + 1].data = obj[q].data

\* In every step in which root receives the message of rank i, it has
\* received the arrays of all ranks below i already.
ReceivedInRankOrder ==
    (oper = "gather" /\ impl = "hybrid") =>
      \A i \in Sending :
         Len(chan'[<<i, root>>]) < Len(chan[<<i, root>>])
         => \A j \in Sending : j < i => RootHasArrayOf(j)

\* C35: on the buffer path of HybridComm.gather every rank r other than
\* root sends exactly one buffer message to root, tagged key + r; root
\* receives from the ranks in increasing rank order; and no rank returns
\* before root has received the array of every other rank (a barrier after
\* the transfers).
C35_OneTransferEachThenBarrier ==
    []TransfersBeforeReturn /\ [][ReceivedInRankOrder]_vars

\* Every rank of a group of three or more returned from the buffer path of
\* HybridComm.gather, root not being the last rank.
C35_AllReturnedAfterTransfers ==
    /\ oper = "gather" /\ impl = "hybrid"
    /\ size > 2 /\ root < size - 1
    /\ \A r \in Ranks : use_buffer[r] /\ pc[r] = "done"




\* ------------------- BufferComm.gather of mpi4pyd/_buffer_comm.py, mixed
SpecGatherShapesFair == SpecGatherShapes /\ WF_vars(NextGatherShapes)

\* In the gather of mpi4pyd/_buffer_comm.py some ranks pass an array and
\* some do not.
MixedArrays ==
    /\ oper = "gather" /\ impl = "toplevel"
    /\ \E r \in Ranks : obj[r].kind = "ndarray"
    /\ \E r \in Ranks : obj[r].kind # "ndarray"

\* C39: in the gather of mpi4pyd/_buffer_comm.py, which makes no handshake,
\* when some but not all ranks pass an array the call hangs: at least one
\* rank blocks forever in the buffer gather and never returns.
C39_MixedArraysHang ==
    MixedArrays =>
       \E r \in 0 .. (MaxSize - 1) :
          <>[](r \in Ranks /\ pc[r] \in {"top_shapes", "top_Gatherv"})

\* C39, the failing case reached: root passed an array and has raised on
\* the table of shapes, and every other rank has returned; no rank waits.
C39_MixedGatherEnded ==
    /\ MixedArrays
    /\ pc[root] = "raised"
    /\ \A r \in Ranks \ {root} : pc[r] = "done"

\* When root passes an array and every rank without an array passes a list
\* of as many numbers as the arrays have axes, root never returns.
MixedGatherRootWaits ==
    (/\ MixedArrays
     /\ obj[root].kind = "ndarray"
     /\ \A r \in Ranks : obj[r].kind = "list" /\ Len(obj[r].data) = Len(obj[root].shape))
       => pc[root] \notin {"done", "raised"}

\* ------------------------------------------- use_buffer_meth, any caller
\* currentframe().f_back.f_code.co_name: the characters of the name of the
\* function that calls the helper.  The operations of the facade, and
\* functions of other names.
co_name ==
    [bcast |-> <<"b", "c", "a", "s", "t">>,
     scatter |-> <<"s", "c", "a", "t", "t", "e", "r">>,
     gather |-> <<"g", "a", "t", "h", "e", "r">>,
     send |-> <<"s", "e", "n", "d">>,
     recv |-> <<"r", "e", "c", "v">>,
     gat |-> <<"g", "a", "t">>,
     her |-> <<"h", "e", "r">>,
     reduce |-> <<"r", "e", "d", "u", "c", "e">>]

\* Rank 0 calls the helper from a function of one name, the other ranks
\* from a function of another, with tag 0 and with src_dest = root, or on
\* root the first other rank.
InitHelper ==
    /\ InitFresh
    /\ NoProgram
    /\ pc = [r \in 0 .. (size - 1) |-> "handshake"]
    /\ oper = "helper"
    /\ impl \in {"hybrid", "buffer"}
    /\ \E first \in DOMAIN co_name, rest \in DOMAIN co_name :
          call = [r \in 0 .. (size - 1) |->
                    [meth |-> IF r = 0 THEN first ELSE rest,
                     peer |-> IF r # root THEN root ELSE IF root = 0 THEN 1 ELSE 0,
                     tag |-> 0]]
    /\ obj \in [0 .. (size - 1) -> {None, Arr(<<MaxExtent>>, "float64", TRUE, 1)}]

\* use_buffer_meth(obj, src_dest, tag) of HybridComm and
\* __use_buffer_meth(obj, root) of BufferComm, up to the return or to the
\* call of comm.allreduce.  `meth_name in (...)` is membership in a tuple of
\* names; BufferComm's `meth_name in ('gather')` has a string on the right,
\* for which `in` is the substring test.
use_buffer_meth(r) ==
    /\ oper = "helper"
    /\ pc[r] = "handshake"
    /\ LET meth_name == co_name[call[r].meth]
           in_tuple(T) == \E t \in T : meth_name = co_name[t]
           in_str(t) == \E i \in 0 .. (Len(co_name[t]) - Len(meth_name)) :
                            SubSeq(co_name[t], i + 1, i + Len(meth_name)) = meth_name
           buff_flag == Flag(is_buffer_obj(obj[r]))
       IN  IF impl = "hybrid" /\ in_tuple({"recv", "send"})
           THEN IF meth_name = co_name["send"]
                THEN /\ chan' = Sent(r, buff_flag, FALSE)
                     /\ Return(r, buff_flag)
                     /\ UNCHANGED posts
                ELSE \E s \in Senders(r, call[r].peer, call[r].tag) :
                        /\ chan' = Received(r, s)
                        /\ Return(r, Taken(r, s).val)
                        /\ UNCHANGED posts
           ELSE IF in_tuple({"bcast", "scatter"})
           THEN /\ FromRootReady(r, "bcast")
                /\ posts' = Post(r, "bcast", buff_flag)
                /\ Return(r, comm_bcast(r, buff_flag))
                /\ UNCHANGED chan
           ELSE IF (impl = "hybrid" /\ meth_name = co_name["gather"])
                   \/ (impl = "buffer" /\ in_str("gather"))
           THEN /\ posts' = Post(r, "allreduce", buff_flag)
                /\ Goto(r, "allreduce")
                /\ UNCHANGED <<chan, ret, err>>
           ELSE /\ Raise(r, "NotImplementedError")
                /\ UNCHANGED <<chan, posts>>
    /\ UNCHANGED <<regvars, oper, impl, size, root, obj, use_buffer, recvobj, shapes, loop, call>>

\* comm.allreduce(is_buffer_obj(obj), op=MPI.MIN) returns on a rank once
\* every rank has made the call.
allreduce_returns(r) ==
    /\ oper = "helper"
    /\ pc[r] = "allreduce"
    /\ \A q \in Ranks : Posted(q, Len(posts[r]), "allreduce")
    /\ Return(r, Flag(allreduce_MIN([q \in Ranks |->
                         posts[q][Len(posts[r])].val.data[1]]) = 1))
    /\ UNCHANGED <<regvars, oper, impl, size, root, obj, use_buffer, recvobj, shapes, loop, posts, chan, call>>

NextHelper ==
    \/ \E r \in Ranks : use_buffer_meth(r)
    \/ \E r \in Ranks : allreduce_returns(r)

SpecHelper == InitHelper /\ [][NextHelper]_vars

\* The functions the helper is meant to be called from.
Sanctioned ==
    IF impl = "hybrid" THEN {"bcast", "gather", "scatter", "send", "recv"}
    ELSE {"bcast", "gather", "scatter"}

\* Rank r has communicated nothing.
NothingCommunicated(r) ==
    posts[r] = <<>> /\ \A d \in Ranks : chan[<<r, d>>] = <<>>

\* C38: called from a function whose name is none of the sanctioned
\* operations (bcast, gather, scatter, and for HybridComm also send and
\* recv), the handshake helper fails with NotImplementedError and
\* communicates nothing.
C38_OtherCallerRefused ==
    oper = "helper" =>
      \A r \in Ranks : call[r].meth \notin Sanctioned =>
         /\ NothingCommunicated(r)
         /\ pc[r] \in {"handshake", "raised"}
         /\ pc[r] = "raised" => err[r] = "NotImplementedError"

\* Called from a function named gat, the helper of BufferComm made the
\* reduction with the other ranks and returned.
C38_OtherCallerReduced ==
    /\ oper = "helper" /\ impl = "buffer"
    /\ \A r \in Ranks : call[r].meth = "gat" /\ pc[r] = "done" /\ posts[r] # <<>>

\* The helper of HybridComm refuses every other caller.
HybridHelperRefusesOthers ==
    (oper = "helper" /\ impl = "hybrid") =>
      \A r \in Ranks : call[r].meth \notin Sanctioned =>
         /\ NothingCommunicated(r)
         /\ pc[r] \in {"handshake", "raised"}
         /\ pc[r] = "raised" => err[r] = "NotImplementedError"

\* The communicator that the facade under key k of the registry wraps.
HandleOf(k) == objs[hybrid_comm_registry[k]].comm

\* The step is a request that has no handle to register: the argument is
\* invalid, a facade, a communicator of one rank, or a communicator that has
\* an entry already.
RequestWithoutNewHandle ==
    /\ Len(log') = Len(log) + 1
    /\ LET q == log'[Len(log')]
       IN  \/ q.exc # ""
           \/ objs[q.comm].class = "HybridComm"
           \/ Get_size(q.comm) = 1
           \/ \E k \in DOMAIN hybrid_comm_registry : HandleOf(k) = q.comm

\* C36: after any sequence of wrap requests the registry holds at most one
\* entry per underlying handle; an entry once written is never overwritten
\* or removed; and a request for a registered handle, for a facade, for a
\* communicator of one rank or with an invalid argument leaves the registry
\* unchanged.
C36_RegistryWrittenOncePerHandle ==
    /\ [](oper = "wrap" =>
            \A k \in DOMAIN hybrid_comm_registry, j \in DOMAIN hybrid_comm_registry :
               HandleOf(k) = HandleOf(j) => k = j)
    /\ [][oper = "wrap" =>
            /\ \A k \in DOMAIN hybrid_comm_registry :
                  /\ k \in DOMAIN hybrid_comm_registry'
                  /\ hybrid_comm_registry'[k] = hybrid_comm_registry[k]
            /\ RequestWithoutNewHandle => hybrid_comm_registry' = hybrid_comm_registry]_vars

\* The registry holds the facade of MPI.COMM_WORLD and the facade of a
\* communicator the program made, and the last request was for the latter.
C36_RegisteredHandleRequested ==
    /\ oper = "wrap"
    /\ Cardinality(DOMAIN hybrid_comm_registry) >= 2
    /\ \E k \in DOMAIN hybrid_comm_registry : HandleOf(k) = Last.arg
    /\ Last.arg > HYBRID_COMM_WORLD
    /\ objs[Last.arg].class = "MPI.Intracomm"
    /\ \E i \in 1 .. (Len(log) - 1) : log[i].arg = Last.arg /\ log[i].out = Last.out


\* The step is a request for a communicator that is no facade, answered
\* with a facade.
FacadeLookedUp ==
    /\ Len(log') = Len(log) + 1
    /\ log'[Len(log')].exc = ""
    /\ objs[log'[Len(log')].comm].class = "MPI.Intracomm"
    /\ objs'[log'[Len(log')].out].class = "HybridComm"

\* C37: every facade stored in the registry under the identity key of a
\* handle forwards to exactly that handle for as long as the entry exists
\* (the facade keeps the handle alive, so the key is not reused by another
\* communicator): a lookup by identity never returns a facade that wraps
\* another communicator than the one passed in.
C37_EntryWrapsItsHandle ==
    /\ [](oper = "wrap" =>
            \A k \in DOMAIN hybrid_comm_registry :
               /\ objs[HandleOf(k)].live
               /\ hex(id(HandleOf(k))) = k
               /\ \A o \in Objs : (objs[o].live /\ hex(id(o)) = k) => o = HandleOf(k))
    /\ [][(oper = "wrap" /\ FacadeLookedUp)
            => objs'[log'[Len(log')].out].comm = log'[Len(log')].comm]_vars

\* A communicator that got the address of a deallocated one is wrapped, and
\* the last request looked its facade up.
C37_ReusedAddressWrapped ==
    /\ oper = "wrap"
    /\ \E d \in Objs, k \in DOMAIN hybrid_comm_registry :
          /\ objs[d].class = "dead"
          /\ objs[HandleOf(k)].addr = objs[d].addr
          /\ Last.arg = HandleOf(k)
          /\ Last.out = hybrid_comm_registry[k]
          /\ \E i \in 1 .. (Len(log) - 1) : log[i].arg = Last.arg

====
